---------------------------- MODULE Spec2Model ----------------------------
(*
  Vehicle-inspection record keeping: the data-access handlers of the server
  (server/src/handlers) over the four tables vehicles, inspectors,
  inspections and inspection_items.

  A table is the set of its rows. A handler call is one action: it reads the
  tables, either throws (the tables stay as they are and `last` records the
  error) or writes and returns (and `last` records the returned value).
  The storage layer is modelled as the handlers use it: serial ids that are
  never reused, created_at/updated_at defaulting to the clock on insert, and
  the cascading delete that deleteVehicle relies on. Storage-level unique
  constraints are not part of the model: the handlers' own lookups are what
  is verified.

  The second half of the module takes the handlers statement by statement:
  `calls` holds, for each request being served, the statement its call runs
  next and what the call has read, and the statements of different calls
  interleave.
*)
EXTENDS Integers, FiniteSets, Sequences, TLC

VARIABLES
    vehicles,           \* rows of vehiclesTable
    inspectors,         \* rows of inspectorsTable
    inspections,        \* rows of inspectionsTable
    items,              \* rows of inspectionItemsTable
    nextVehicleId,      \* serial sequence of vehicles.id
    nextInspectorId,    \* serial sequence of inspectors.id
    nextInspectionId,   \* serial sequence of inspections.id
    nextItemId,         \* serial sequence of inspection_items.id
    now,                \* the clock read by new Date() and by defaultNow()
    last,               \* the most recent step: the handler called, its input and its outcome
    calls               \* the calls in progress, one per request: the statement each
                        \* is at and what it has read so far

tables == <<vehicles, inspectors, inspections, items>>
serials == <<nextVehicleId, nextInspectorId, nextInspectionId, nextItemId>>
vars == <<vehicles, inspectors, inspections, items,
          nextVehicleId, nextInspectorId, nextInspectionId, nextItemId,
          now, last, calls>>

-----------------------------------------------------------------------------
(* Bounds *)

MaxVehicleId == 2
MaxInspectorId == 2
MaxInspectionId == 2
MaxItemId == 2
MaxClock == 1
MaxRequests == 2

-----------------------------------------------------------------------------
(* Values *)

\* SQL NULL / JavaScript null
Null == "<null>"

VINs == {"1HGBH41JXMN109186", "2HGBH41JXMN109187", "3HGBH41JXMN109188"}
Plates == {"ABC123", "XYZ789", "DEF456"}

EmployeeIds == {"EMP001", "EMP002"}

\* ids a caller may pass: those the sequence can hand out, and 0, which no row has
VehicleIdArgs == 0..MaxVehicleId
InspectorIdArgs == 0..MaxInspectorId
InspectionIdArgs == 0..MaxInspectionId
ItemIdArgs == 0..MaxItemId

\* the requests the server may be handling at the same time
Requests == 1..MaxRequests

-----------------------------------------------------------------------------
(* Outcomes *)

NoError == [kind |-> "none", entity |-> "", field |-> "", value |-> "", id |-> 0, count |-> 0]

\* NotFound without the id
NotFound_NoId(entity, id) ==
    [kind |-> "not_found", entity |-> entity, field |-> "id", value |-> "", id |-> 0, count |-> 0]

NotFound(entity, id) ==
    [kind |-> "not_found", entity |-> entity, field |-> "id", value |-> "", id |-> id, count |-> 0]

Conflict(entity, field, value) ==
    [kind |-> "conflict", entity |-> entity, field |-> field, value |-> value, id |-> 0, count |-> 0]

NoValue == [tag |-> "none"]
NullValue == [tag |-> "null"]
Success == [tag |-> "success"]
RowValue(row) == [tag |-> "row", row |-> row]

Threw(op, input, error) ==
    [op |-> op, input |-> input, error |-> error, value |-> NoValue]

Returned(op, input, value) ==
    [op |-> op, input |-> input, error |-> NoError, value |-> value]

Referenced(entity, id, count) ==
    [kind |-> "referenced", entity |-> entity, field |-> "id", value |-> "", id |-> id,
     count |-> count]

RowsValue(rows) == [tag |-> "rows", rows |-> rows]

\* a request that is handling no call
Idle == [op |-> "idle", pc |-> "idle"]

\* input.f !== undefined: the input object has the property
Has(input, f) == f \in DOMAIN input

\* JavaScript truthiness of an optional string property of the input
Truthy(input, f) == Has(input, f) /\ input[f] # Null /\ input[f] # ""

\* UPDATE ... SET updateData on one row
set(row, updateData) ==
    [f \in DOMAIN row |-> IF f \in DOMAIN updateData THEN updateData[f] ELSE row[f]]

\* buildUpdateData copying notes and comments only when they are truthy
buildUpdateData_NullOmitted(input, fields) ==
    [f \in {g \in fields \cap DOMAIN input :
                g \in {"notes", "comments"} => Truthy(input, g)} \cup {"updated_at"} |->
        IF f = "updated_at" THEN now ELSE input[f]]

\* buildUpdateData without updated_at
buildUpdateData_NoTimestamp(input, fields) ==
    [f \in fields \cap DOMAIN input |-> input[f]]

\* the properties among `fields` that the input supplies, and updated_at: new Date()
buildUpdateData(input, fields) ==
    [f \in (fields \cap DOMAIN input) \cup {"updated_at"} |->
        IF f = "updated_at" THEN now ELSE input[f]]

-----------------------------------------------------------------------------
(* Vehicle handlers *)

\* createVehicleConflict without its license-plate comparison
createVehicleConflict_VinOnly(existingVehicle, input) ==
    IF existingVehicle.vin = input.vin
    THEN Conflict("vehicle", "vin", input.vin)
    ELSE NoError

\* the error createVehicle raises after looking at the first row of its lookup
createVehicleConflict(existingVehicle, input) ==
    IF existingVehicle.vin = input.vin
    THEN Conflict("vehicle", "vin", input.vin)
    ELSE IF existingVehicle.license_plate = input.license_plate
         THEN Conflict("vehicle", "license_plate", input.license_plate)
         ELSE NoError

\* the row INSERT INTO vehicles stores: the values given, the serial id and
\* the timestamps' default
vehicleRow(id, input, t) ==
    [id |-> id,
     make |-> input.make, model |-> input.model, year |-> input.year,
     vin |-> input.vin, license_plate |-> input.license_plate,
     created_at |-> t, updated_at |-> t]

insertVehicle(input) == vehicleRow(nextVehicleId, input, now)

createVehicle(input) ==
    LET existingVehicles ==
            {v \in vehicles : v.vin = input.vin \/ v.license_plate = input.license_plate}
    IN  \/ /\ existingVehicles # {}
           \* the lookup has no ORDER BY: any matching row can be existingVehicles[0]
           /\ \E existingVehicle \in existingVehicles :
                /\ createVehicleConflict(existingVehicle, input).kind # "none"
                /\ last' = Threw("createVehicle", input,
                                 createVehicleConflict(existingVehicle, input))
           /\ UNCHANGED <<tables, serials, now, calls>>
        \/ /\ \/ existingVehicles = {}
              \/ \E existingVehicle \in existingVehicles :
                    createVehicleConflict(existingVehicle, input).kind = "none"
           /\ nextVehicleId <= MaxVehicleId
           /\ vehicles' = vehicles \cup {insertVehicle(input)}
           /\ nextVehicleId' = nextVehicleId + 1
           /\ last' = Returned("createVehicle", input, RowValue(insertVehicle(input)))
           /\ UNCHANGED <<inspectors, inspections, items,
                          nextInspectorId, nextInspectionId, nextItemId, now, calls>>

\* getVehicleById throwing for an absent row as the update handlers do
getVehicleById_Throws(id) ==
    LET results == {v \in vehicles : v.id = id}
    IN  /\ IF results = {}
           THEN last' = Threw("getVehicleById", id, NotFound("vehicle", id))
           ELSE \E row \in results : last' = Returned("getVehicleById", id, RowValue(row))
        /\ UNCHANGED <<tables, serials, now, calls>>

getVehicleById(id) ==
    LET results == {v \in vehicles : v.id = id}
    IN  /\ IF results = {}
           THEN last' = Returned("getVehicleById", id, NullValue)
           ELSE \E row \in results : last' = Returned("getVehicleById", id, RowValue(row))
        /\ UNCHANGED <<tables, serials, now, calls>>

\* the WHERE clause of updateVehicle's conflict query without its ne(id):
\* and(...uniquenessConditions), one condition per truthy property
uniquenessConditions(v, input) ==
    /\ Truthy(input, "vin") => v.vin = input.vin
    /\ Truthy(input, "license_plate") => v.license_plate = input.license_plate

updateVehicleConflict(conflict, input) ==
    IF Truthy(input, "vin") /\ conflict.vin = input.vin
    THEN Conflict("vehicle", "vin", input.vin)
    ELSE IF Truthy(input, "license_plate") /\ conflict.license_plate = input.license_plate
         THEN Conflict("vehicle", "license_plate", input.license_plate)
         ELSE NoError

updateVehicleData(input) ==
    buildUpdateData(input, {"make", "model", "year", "vin", "license_plate"})

updateVehicle(input) ==
    LET existingVehicles == {v \in vehicles : v.id = input.id}
        conflicts ==
            IF Truthy(input, "vin") \/ Truthy(input, "license_plate")
            THEN {v \in vehicles : v.id # input.id /\ uniquenessConditions(v, input)}
            ELSE {}
    IN  \/ /\ existingVehicles = {}
           /\ last' = Threw("updateVehicle", input, NotFound("vehicle", input.id))
           /\ UNCHANGED <<tables, serials, now, calls>>
        \/ /\ existingVehicles # {}
           /\ \E conflict \in conflicts :
                /\ updateVehicleConflict(conflict, input).kind # "none"
                /\ last' = Threw("updateVehicle", input, updateVehicleConflict(conflict, input))
           /\ UNCHANGED <<tables, serials, now, calls>>
        \/ /\ existingVehicles # {}
           /\ \/ conflicts = {}
              \/ \E conflict \in conflicts :
                    updateVehicleConflict(conflict, input).kind = "none"
           /\ vehicles' = {IF v.id = input.id THEN set(v, updateVehicleData(input)) ELSE v :
                             v \in vehicles}
           /\ \E row \in existingVehicles :
                last' = Returned("updateVehicle", input,
                                 RowValue(set(row, updateVehicleData(input))))
           /\ UNCHANGED <<inspectors, inspections, items, serials, now, calls>>

\* deletedVehicles without its WHERE clause
deletedVehicles_All(id) == vehicles

\* the rows DELETE FROM vehicles WHERE id = $1 removes
deletedVehicles(id) == {v \in vehicles : v.id = id}

\* ON DELETE CASCADE of inspections.vehicle_id
cascadeInspections(deleted) == {i \in inspections : \E v \in deleted : i.vehicle_id = v.id}

\* ON DELETE CASCADE of inspection_items.inspection_id
cascadeItems(deleted) == {it \in items : \E i \in deleted : it.inspection_id = i.id}

deleteVehicle(id) ==
    LET existingVehicle == {v \in vehicles : v.id = id}
    IN  \/ /\ existingVehicle = {}
           /\ last' = Threw("deleteVehicle", id, NotFound("vehicle", id))
           /\ UNCHANGED <<tables, serials, now, calls>>
        \/ /\ existingVehicle # {}
           /\ vehicles' = vehicles \ deletedVehicles(id)
           /\ inspections' = inspections \ cascadeInspections(deletedVehicles(id))
           /\ items' = items \ cascadeItems(cascadeInspections(deletedVehicles(id)))
           /\ last' = Returned("deleteVehicle", id, Success)
           /\ UNCHANGED <<inspectors, serials, now, calls>>

-----------------------------------------------------------------------------
(* Inspector handlers *)

inspectorRow(id, input, t) ==
    [id |-> id, name |-> input.name, employee_id |-> input.employee_id,
     created_at |-> t, updated_at |-> t]

insertInspector(input) == inspectorRow(nextInspectorId, input, now)

createInspector(input) ==
    LET existingInspector == {i \in inspectors : i.employee_id = input.employee_id}
    IN  \/ /\ existingInspector # {}
           /\ last' = Threw("createInspector", input,
                            Conflict("inspector", "employee_id", input.employee_id))
           /\ UNCHANGED <<tables, serials, now, calls>>
        \/ /\ existingInspector = {}
           /\ nextInspectorId <= MaxInspectorId
           /\ inspectors' = inspectors \cup {insertInspector(input)}
           /\ nextInspectorId' = nextInspectorId + 1
           /\ last' = Returned("createInspector", input, RowValue(insertInspector(input)))
           /\ UNCHANGED <<vehicles, inspections, items,
                          nextVehicleId, nextInspectionId, nextItemId, now, calls>>

getInspectorById(id) ==
    LET result == {i \in inspectors : i.id = id}
    IN  /\ IF result = {}
           THEN last' = Returned("getInspectorById", id, NullValue)
           ELSE \E row \in result : last' = Returned("getInspectorById", id, RowValue(row))
        /\ UNCHANGED <<tables, serials, now, calls>>

\* duplicateCheck with eq(id) in place of ne(id)
duplicateCheck_OwnRow(input) ==
    IF Truthy(input, "employee_id")
    THEN {i \in inspectors : i.employee_id = input.employee_id /\ i.id = input.id}
    ELSE {}

\* duplicateCheck without ne(id): the inspector's own row counts
duplicateCheck_AnyRow(input) ==
    IF Truthy(input, "employee_id")
    THEN {i \in inspectors : i.employee_id = input.employee_id}
    ELSE {}

\* the rows of updateInspector's duplicate check; empty when the check is skipped
duplicateCheck(input) ==
    IF Truthy(input, "employee_id")
    THEN {i \in inspectors : i.employee_id = input.employee_id /\ i.id # input.id}
    ELSE {}

updateInspectorData(input) == buildUpdateData(input, {"name", "employee_id"})

updateInspector(input) ==
    LET existingInspector == {i \in inspectors : i.id = input.id}
    IN  \/ /\ existingInspector = {}
           /\ last' = Threw("updateInspector", input, NotFound("inspector", input.id))
           /\ UNCHANGED <<tables, serials, now, calls>>
        \/ /\ existingInspector # {}
           /\ duplicateCheck(input) # {}
           /\ last' = Threw("updateInspector", input,
                            Conflict("inspector", "employee_id", input.employee_id))
           /\ UNCHANGED <<tables, serials, now, calls>>
        \/ /\ existingInspector # {}
           /\ duplicateCheck(input) = {}
           /\ inspectors' = {IF i.id = input.id THEN set(i, updateInspectorData(input)) ELSE i :
                               i \in inspectors}
           /\ \E row \in existingInspector :
                last' = Returned("updateInspector", input,
                                 RowValue(set(row, updateInspectorData(input))))
           /\ UNCHANGED <<vehicles, inspections, items, serials, now, calls>>

\* associatedInspections selecting on the inspection's other foreign key
associatedInspections_ByVehicle(id) == {i \in inspections : i.vehicle_id = id}

\* the inspections deleteInspector enumerates for its reference check
associatedInspections(id) == {i \in inspections : i.inspector_id = id}

\* deleteInspector deleting before its reference check
deleteInspector_DeleteFirst(id) ==
    LET existingInspector == {i \in inspectors : i.id = id}
    IN  \/ /\ existingInspector = {}
           /\ last' = Threw("deleteInspector", id, NotFound("inspector", id))
           /\ UNCHANGED <<tables, serials, now, calls>>
        \/ /\ existingInspector # {}
           /\ Cardinality(associatedInspections(id)) > 0
           /\ inspectors' = {i \in inspectors : i.id # id}
           /\ last' = Threw("deleteInspector", id,
                            Referenced("inspector", id, Cardinality(associatedInspections(id))))
           /\ UNCHANGED <<vehicles, inspections, items, serials, now, calls>>
        \/ /\ existingInspector # {}
           /\ Cardinality(associatedInspections(id)) = 0
           /\ inspectors' = {i \in inspectors : i.id # id}
           /\ last' = Returned("deleteInspector", id, Success)
           /\ UNCHANGED <<vehicles, inspections, items, serials, now, calls>>

deleteInspector(id) ==
    LET existingInspector == {i \in inspectors : i.id = id}
    IN  \/ /\ existingInspector = {}
           /\ last' = Threw("deleteInspector", id, NotFound("inspector", id))
           /\ UNCHANGED <<tables, serials, now, calls>>
        \/ /\ existingInspector # {}
           /\ Cardinality(associatedInspections(id)) > 0
           /\ last' = Threw("deleteInspector", id,
                            Referenced("inspector", id, Cardinality(associatedInspections(id))))
           /\ UNCHANGED <<tables, serials, now, calls>>
        \/ /\ existingInspector # {}
           /\ Cardinality(associatedInspections(id)) = 0
           /\ inspectors' = {i \in inspectors : i.id # id}
           /\ last' = Returned("deleteInspector", id, Success)
           /\ UNCHANGED <<vehicles, inspections, items, serials, now, calls>>

-----------------------------------------------------------------------------
(* Inspection handlers *)

\* orNull with ?? in place of ||: only undefined and null become null
orNull_KeepEmpty(input, f) == IF Has(input, f) /\ input[f] # Null THEN input[f] ELSE Null

\* input.notes || null, input.comments || null
orNull(input, f) == IF Truthy(input, f) THEN input[f] ELSE Null

\* inspectionRow taking completed from the input when the input has it
inspectionRow_CompletedFromInput(id, input, t) ==
    [id |-> id,
     vehicle_id |-> input.vehicle_id, inspector_id |-> input.inspector_id,
     inspection_date |-> input.inspection_date,
     completed |-> IF Has(input, "completed") THEN input.completed ELSE FALSE,
     notes |-> orNull(input, "notes"),
     created_at |-> t, updated_at |-> t]

inspectionRow(id, input, t) ==
    [id |-> id,
     vehicle_id |-> input.vehicle_id, inspector_id |-> input.inspector_id,
     inspection_date |-> input.inspection_date,
     completed |-> FALSE,
     notes |-> orNull(input, "notes"),
     created_at |-> t, updated_at |-> t]

insertInspection(input) == inspectionRow(nextInspectionId, input, now)

\* createInspectionChecks with the inspector looked up before the vehicle
createInspectionChecks_InspectorFirst(input) ==
    LET vehicle == {v \in vehicles : v.id = input.vehicle_id}
        inspector == {i \in inspectors : i.id = input.inspector_id}
    IN  IF inspector = {} THEN NotFound("inspector", input.inspector_id)
        ELSE IF vehicle = {} THEN NotFound("vehicle", input.vehicle_id)
        ELSE NoError

\* createInspectionChecks without the inspector lookup
createInspectionChecks_VehicleOnly(input) ==
    LET vehicle == {v \in vehicles : v.id = input.vehicle_id}
    IN  IF vehicle = {} THEN NotFound("vehicle", input.vehicle_id)
        ELSE NoError

\* the two existence checks of createInspection, in order: the error of the
\* first that fails
createInspectionChecks(input) ==
    LET vehicle == {v \in vehicles : v.id = input.vehicle_id}
        inspector == {i \in inspectors : i.id = input.inspector_id}
    IN  IF vehicle = {} THEN NotFound("vehicle", input.vehicle_id)
        ELSE IF inspector = {} THEN NotFound("inspector", input.inspector_id)
        ELSE NoError

createInspection(input) ==
        \/ /\ createInspectionChecks(input).kind # "none"
           /\ last' = Threw("createInspection", input, createInspectionChecks(input))
           /\ UNCHANGED <<tables, serials, now, calls>>
        \/ /\ createInspectionChecks(input).kind = "none"
           /\ nextInspectionId <= MaxInspectionId
           /\ inspections' = inspections \cup {insertInspection(input)}
           /\ nextInspectionId' = nextInspectionId + 1
           /\ last' = Returned("createInspection", input, RowValue(insertInspection(input)))
           /\ UNCHANGED <<vehicles, inspectors, items,
                          nextVehicleId, nextInspectorId, nextItemId, now, calls>>

\* updateInspectionData that sets completed on every update
updateInspectionData_AlwaysCompleted(input) ==
    [f \in {"completed"} \cup DOMAIN buildUpdateData(input, {"notes"}) |->
        IF f = "completed" THEN TRUE ELSE buildUpdateData(input, {"notes"})[f]]

\* updateInspectionData that also copies the inspection date
updateInspectionData_WithDate(input) ==
    buildUpdateData(input, {"completed", "notes", "inspection_date"})

updateInspectionData(input) == buildUpdateData(input, {"completed", "notes"})

updateInspection(input) ==
    \* UPDATE ... WHERE id = input.id RETURNING: the rows it matched
    LET result == {i \in inspections : i.id = input.id}
    IN  \/ /\ result = {}
           /\ last' = Threw("updateInspection", input, NotFound("inspection", input.id))
           /\ UNCHANGED <<tables, serials, now, calls>>
        \/ /\ result # {}
           /\ inspections' = {IF i.id = input.id THEN set(i, updateInspectionData(input))
                              ELSE i : i \in inspections}
           /\ \E row \in result :
                last' = Returned("updateInspection", input,
                                 RowValue(set(row, updateInspectionData(input))))
           /\ UNCHANGED <<vehicles, inspectors, items, serials, now, calls>>

-----------------------------------------------------------------------------
(* Inspection item handlers *)

itemRow(id, inspection_id, item, t) ==
    [id |-> id,
     inspection_id |-> inspection_id,
     item_name |-> item.item_name,
     status |-> item.status,
     comments |-> orNull(item, "comments"),
     created_at |-> t, updated_at |-> t]

\* insertItem building every row from the first item of the input
insertItem_FirstItem(input, k) ==
    itemRow(nextItemId + k - 1, input.inspection_id, input.items[1], now)

\* the k-th row of the bulk insert
insertItem(input, k) == itemRow(nextItemId + k - 1, input.inspection_id, input.items[k], now)

\* createInspectionItems with the empty-array shortcut before the existence check
createInspectionItems_ShortcutFirst(input) ==
    LET inspection == {i \in inspections : i.id = input.inspection_id}
        result == [k \in 1..Len(input.items) |-> insertItem(input, k)]
    IN  \/ /\ Len(input.items) = 0
           /\ last' = Returned("createInspectionItems", input, RowsValue(<<>>))
           /\ UNCHANGED <<tables, serials, now, calls>>
        \/ /\ Len(input.items) # 0
           /\ inspection = {}
           /\ last' = Threw("createInspectionItems", input,
                            NotFound("inspection", input.inspection_id))
           /\ UNCHANGED <<tables, serials, now, calls>>
        \/ /\ inspection # {}
           /\ Len(input.items) # 0
           /\ nextItemId + Len(input.items) - 1 <= MaxItemId
           /\ items' = items \cup {result[k] : k \in 1..Len(input.items)}
           /\ nextItemId' = nextItemId + Len(input.items)
           /\ last' = Returned("createInspectionItems", input, RowsValue(result))
           /\ UNCHANGED <<vehicles, inspectors, inspections,
                          nextVehicleId, nextInspectorId, nextInspectionId, now, calls>>

createInspectionItems(input) ==
    LET inspection == {i \in inspections : i.id = input.inspection_id}
        result == [k \in 1..Len(input.items) |-> insertItem(input, k)]
    IN  \/ /\ inspection = {}
           /\ last' = Threw("createInspectionItems", input,
                            NotFound("inspection", input.inspection_id))
           /\ UNCHANGED <<tables, serials, now, calls>>
        \/ /\ inspection # {}
           /\ Len(input.items) = 0
           /\ last' = Returned("createInspectionItems", input, RowsValue(<<>>))
           /\ UNCHANGED <<tables, serials, now, calls>>
        \/ /\ inspection # {}
           /\ Len(input.items) # 0
           /\ nextItemId + Len(input.items) - 1 <= MaxItemId
           /\ items' = items \cup {result[k] : k \in 1..Len(input.items)}
           /\ nextItemId' = nextItemId + Len(input.items)
           /\ last' = Returned("createInspectionItems", input, RowsValue(result))
           /\ UNCHANGED <<vehicles, inspectors, inspections,
                          nextVehicleId, nextInspectorId, nextInspectionId, now, calls>>

updateInspectionItemData(input) == buildUpdateData(input, {"status", "comments"})

updateInspectionItem(input) ==
    LET result == {it \in items : it.id = input.id}
    IN  \/ /\ result = {}
           /\ last' = Threw("updateInspectionItem", input,
                            NotFound("inspection_item", input.id))
           /\ UNCHANGED <<tables, serials, now, calls>>
        \/ /\ result # {}
           /\ items' = {IF it.id = input.id THEN set(it, updateInspectionItemData(input))
                        ELSE it : it \in items}
           /\ \E row \in result :
                last' = Returned("updateInspectionItem", input,
                                 RowValue(set(row, updateInspectionItemData(input))))
           /\ UNCHANGED <<vehicles, inspectors, inspections, serials, now, calls>>

-----------------------------------------------------------------------------
(* Read handlers *)

\* the orders in which a query without ORDER BY may return the rows
RECURSIVE unordered(_)
unordered(rows) ==
    IF rows = {} THEN {<<>>}
    ELSE UNION {{<<x>> \o t : t \in unordered(rows \ {x})} : x \in rows}

\* the orders in which ORDER BY desc(column) may return the rows, column[r]
\* being the column's value in row r: rows with equal values come in any order
RECURSIVE orderByDesc(_, _)
orderByDesc(rows, column) ==
    IF rows = {} THEN {<<>>}
    ELSE UNION {{<<x>> \o t : t \in orderByDesc(rows \ {x}, column)} :
                    x \in {y \in rows : \A z \in rows : column[y] >= column[z]}}

\* .limit(10) of getInspectionReport
RecentLimit == 10

\* limit that lets one row more through
limit_OneMore(results, n) ==
    SubSeq(results, 1, IF Len(results) < n + 1 THEN Len(results) ELSE n + 1)

\* LIMIT n
limit(results, n) ==
    SubSeq(results, 1, IF Len(results) < n THEN Len(results) ELSE n)

\* innerJoin without its join conditions
innerJoin_Cross(ns) ==
    {[inspections |-> n, vehicles |-> v, inspectors |-> i] :
        n \in ns,
        v \in vehicles,
        i \in inspectors}

\* inspections innerJoin vehicles innerJoin inspectors
joined(ns) ==
    {[inspections |-> n, vehicles |-> v, inspectors |-> i] :
        n \in ns,
        v \in vehicles,
        i \in inspectors}

innerJoin(ns) ==
    {r \in joined(ns) : r.inspections.vehicle_id = r.vehicles.id
                        /\ r.inspections.inspector_id = r.inspectors.id}

\* the InspectionWithDetails object built from a joined row and its items
details(result, inspectionItems) ==
    [f \in DOMAIN result.inspections \cup {"vehicle", "inspector", "items"} |->
        CASE f = "vehicle" -> result.vehicles
          [] f = "inspector" -> result.inspectors
          [] f = "items" -> inspectionItems
          [] OTHER -> result.inspections[f]]

DetailsValue(d) == [tag |-> "details", details |-> d]

getInspectionDetails(input) ==
    LET inspectionResult == innerJoin({n \in inspections : n.id = input.inspection_id})
    IN  /\ IF inspectionResult = {}
           THEN last' = Returned("getInspectionDetails", input, NullValue)
           ELSE \E result \in inspectionResult :
                \E inspectionItems \in
                        unordered({it \in items : it.inspection_id = input.inspection_id}) :
                    last' = Returned("getInspectionDetails", input,
                                     DetailsValue(details(result, inspectionItems)))
        /\ UNCHANGED <<tables, serials, now, calls>>

\* ORDER BY asc(column)
orderByAsc(rows, column) == orderByDesc(rows, [r \in rows |-> 0 - column[r]])

\* the place of an inspector's name in the collation of the name column
collation(name) ==
    CASE name = "Jane Doe" -> 1
      [] name = "John Smith" -> 2

NoInput == [x \in {} |-> 0]

getVehicles ==
    /\ \E results \in orderByDesc(vehicles, [v \in vehicles |-> v.created_at]) :
            last' = Returned("getVehicles", NoInput, RowsValue(results))
    /\ UNCHANGED <<tables, serials, now, calls>>

getInspectors ==
    /\ \E results \in orderByAsc(inspectors, [i \in inspectors |-> collation(i.name)]) :
            last' = Returned("getInspectors", NoInput, RowsValue(results))
    /\ UNCHANGED <<tables, serials, now, calls>>

getInspections ==
    /\ \E results \in orderByDesc(inspections, [n \in inspections |-> n.inspection_date]) :
            last' = Returned("getInspections", NoInput, RowsValue(results))
    /\ UNCHANGED <<tables, serials, now, calls>>

\* the items of each result, grouped by inspection_id in the order the items
\* queries return them
RECURSIVE itemsByInspection(_)
itemsByInspection(results) ==
    IF results = <<>> THEN {<<>>}
    ELSE {<<details(Head(results), inspectionItems)>> \o t :
            inspectionItems \in
                unordered({it \in items : it.inspection_id = Head(results).inspections.id}),
            t \in itemsByInspection(Tail(results))}

\* getVehicleInspections without its where clause
getVehicleInspections_AllVehicles(input) ==
    LET rows == innerJoin(inspections)
    IN  /\ \E results \in orderByDesc(rows, [r \in rows |-> r.inspections.inspection_date]) :
           \E withItems \in itemsByInspection(results) :
                last' = Returned("getVehicleInspections", input, RowsValue(withItems))
        /\ UNCHANGED <<tables, serials, now, calls>>

getVehicleInspections(input) ==
    LET rows == innerJoin({n \in inspections : n.vehicle_id = input.vehicle_id})
    IN  /\ \E results \in orderByDesc(rows, [r \in rows |-> r.inspections.inspection_date]) :
           \E withItems \in itemsByInspection(results) :
                last' = Returned("getVehicleInspections", input, RowsValue(withItems))
        /\ UNCHANGED <<tables, serials, now, calls>>

\* count(*) where completed = false
completedInspectionsQuery_Pending == Cardinality({n \in inspections : n.completed = FALSE})

\* count(*) from inspections
totalInspectionsQuery == Cardinality(inspections)

\* count(*) from inspections where completed = true
completedInspectionsQuery == Cardinality({n \in inspections : n.completed = TRUE})

\* the possible results of the recent-inspections query
recentInspectionsResults ==
    {limit(results, RecentLimit) :
        results \in orderByDesc(innerJoin(inspections),
                                [r \in innerJoin(inspections) |-> r.inspections.created_at])}

InspectionReport(total_inspections, completed_inspections, recent_inspections) ==
    [total_inspections |-> total_inspections,
     completed_inspections |-> completed_inspections,
     pending_inspections |-> total_inspections - completed_inspections,
     recent_inspections |-> recent_inspections]

ReportValue(report) == [tag |-> "report", report |-> report]

\* results.map(...): each joined row with the items of its inspection, which
\* the items query returns in some order
RECURSIVE recent_inspections(_)
recent_inspections(results) ==
    IF results = <<>> THEN {<<>>}
    ELSE {<<details(Head(results), inspectionItems)>> \o t :
            inspectionItems \in
                unordered({it \in items : it.inspection_id = Head(results).inspections.id}),
            t \in recent_inspections(Tail(results))}

getInspectionReport ==
    /\ \E results \in recentInspectionsResults :
       \E recent \in recent_inspections(results) :
            last' = Returned("getInspectionReport", [x \in {} |-> 0],
                    ReportValue(InspectionReport(
                        totalInspectionsQuery, completedInspectionsQuery, recent)))
    /\ UNCHANGED <<tables, serials, now, calls>>

-----------------------------------------------------------------------------
(* The clock *)

\* time passes between two handler calls
Tick ==
    /\ now < MaxClock
    /\ now' = now + 1
    /\ last' = Returned("tick", now + 1, NoValue)
    /\ UNCHANGED <<tables, serials, calls>>

-----------------------------------------------------------------------------
(* Inputs *)

Merge(f, g) ==
    [x \in DOMAIN f \cup DOMAIN g |-> IF x \in DOMAIN f THEN f[x] ELSE g[x]]

\* an optional property: absent, or present with a value of S
Opt(f, S) == {[x \in {} |-> 0]} \cup {[x \in {f} |-> v] : v \in S}

CreateVehicleInputs ==
    [make : {"Toyota"}, model : {"Camry"}, year : {2023}, vin : VINs, license_plate : Plates]

\* patches of the two unique columns
UpdateVehicleKeyInputs ==
    {Merge([id |-> id], Merge(vin, plate)) :
        id \in VehicleIdArgs, vin \in Opt("vin", VINs), plate \in Opt("license_plate", Plates)}

CreateInspectorInputs == [name : {"John Smith"}, employee_id : EmployeeIds]

UpdateInspectorInputs ==
    {Merge([id |-> id], Merge(name, emp)) :
        id \in InspectorIdArgs, name \in Opt("name", {"Jane Doe"}),
        emp \in Opt("employee_id", EmployeeIds)}

\* one vehicle, for the specifications that are not about vehicles
SeedVehicleInputs ==
    [make : {"Toyota"}, model : {"Camry"}, year : {2023},
     vin : {"1HGBH41JXMN109186"}, license_plate : {"ABC123"}]

\* inspections without notes on one date
SeedInspectionInputs ==
    [vehicle_id : VehicleIdArgs, inspector_id : InspectorIdArgs,
     inspection_date : {20240115}]

\* two vehicles that do not collide, for the specifications that are not
\* about uniqueness
TwoVehicleInputs ==
    {[make |-> "Toyota", model |-> "Camry", year |-> 2023,
      vin |-> "1HGBH41JXMN109186", license_plate |-> "ABC123"],
     [make |-> "Honda", model |-> "Civic", year |-> 2024,
      vin |-> "2HGBH41JXMN109187", license_plate |-> "XYZ789"]}

SeedInspectorInputs == [name : {"John Smith"}, employee_id : {"EMP001"}]

\* checklists of zero, one and two items
SeedItemLists ==
    {<<>>,
     <<[item_name |-> "Brakes", status |-> "pass"]>>,
     <<[item_name |-> "Brakes", status |-> "pass"],
       [item_name |-> "Lights", status |-> "fail", comments |-> "Left headlight out"]>>}

SeedItemsInputs == [inspection_id : InspectionIdArgs, items : SeedItemLists]

\* inspections with and without notes, and with a completed property that
\* CreateInspectionInput does not have
CreateInspectionInputs ==
    {Merge([vehicle_id |-> v, inspector_id |-> i, inspection_date |-> 20240115],
           Merge(notes, completed)) :
        v \in VehicleIdArgs, i \in InspectorIdArgs,
        notes \in Opt("notes", {"Recheck brakes"}),
        completed \in Opt("completed", {TRUE})}

GetVehicleInspectionsInputs == [vehicle_id : VehicleIdArgs]

\* patches that repeat what the first vehicle, the first inspector and the
\* first item hold, and patches of an inspection's completed flag or notes
KeepVehicleInputs == {[id |-> id, vin |-> "1HGBH41JXMN109186"] : id \in VehicleIdArgs}
KeepInspectorInputs == {[id |-> id, employee_id |-> "EMP001"] : id \in InspectorIdArgs}
KeepInspectionItemInputs == {[id |-> id] : id \in ItemIdArgs}
CompleteInspectionInputs ==
    {Merge([id |-> id], patch) :
        id \in InspectionIdArgs,
        patch \in {[completed |-> TRUE], [completed |-> FALSE], [notes |-> Null]}}

GetInspectionDetailsInputs == [inspection_id : InspectionIdArgs]

\* the vehicle every patch below draws its values from
VehicleC == [make |-> "Ford", model |-> "Focus", year |-> 2025,
             vin |-> "3HGBH41JXMN109188", license_plate |-> "DEF456"]

\* patches of a vehicle: none of the five columns, two of them, the other
\* three, all five
UpdateVehicleInputs ==
    LET patches == {[x \in fields |-> VehicleC[x]] :
                        fields \in {{}, {"make", "model"},
                                    {"year", "vin", "license_plate"}, DOMAIN VehicleC}}
    IN  {Merge([id |-> id], patch) : id \in VehicleIdArgs, patch \in patches}

\* patches of an inspector: no column, either, both
PatchInspectorInputs ==
    {Merge([id |-> id], Merge(name, emp)) :
        id \in InspectorIdArgs, name \in Opt("name", {"Jane Doe"}),
        emp \in Opt("employee_id", {"EMP003"})}

\* patches of an inspection: nothing, completed alone, notes alone (a string,
\* null), both
UpdateInspectionInputs ==
    {Merge([id |-> id], patch) :
        id \in InspectionIdArgs,
        patch \in {[x \in {} |-> 0],
                   [completed |-> TRUE],
                   [notes |-> "Recheck brakes"],
                   [notes |-> Null],
                   [completed |-> FALSE, notes |-> Null]}}

\* patches of an item: nothing, status alone, comments alone (null), both
UpdateInspectionItemInputs ==
    {Merge([id |-> id], patch) :
        id \in ItemIdArgs,
        patch \in {[x \in {} |-> 0],
                   [status |-> "not_applicable"],
                   [comments |-> Null],
                   [status |-> "pass", comments |-> "Replaced"]}}

\* patches that supply nothing but the id, and patches of one column
TouchVehicleInputs ==
    {Merge([id |-> id], patch) :
        id \in VehicleIdArgs, patch \in {[x \in {} |-> 0], [vin |-> VehicleC.vin]}}
TouchInspectorInputs ==
    {Merge([id |-> id], patch) :
        id \in InspectorIdArgs, patch \in {[x \in {} |-> 0], [employee_id |-> "EMP003"]}}
TouchInspectionInputs ==
    {Merge([id |-> id], patch) :
        id \in InspectionIdArgs, patch \in {[x \in {} |-> 0], [completed |-> TRUE]}}
TouchInspectionItemInputs ==
    {Merge([id |-> id], patch) :
        id \in ItemIdArgs, patch \in {[x \in {} |-> 0], [status |-> "not_applicable"]}}

\* Stores the create handlers build at time 0, one per table under update:
\* two rows of that table and the rows they reference.
VehicleA == [make |-> "Toyota", model |-> "Camry", year |-> 2023,
             vin |-> "1HGBH41JXMN109186", license_plate |-> "ABC123"]
VehicleB == [make |-> "Honda", model |-> "Civic", year |-> 2024,
             vin |-> "2HGBH41JXMN109187", license_plate |-> "XYZ789"]
InspectorA == [name |-> "John Smith", employee_id |-> "EMP001"]
InspectorB == [name |-> "John Smith", employee_id |-> "EMP002"]
InspectorC == [name |-> "Jane Doe", employee_id |-> "EMP003"]
InspectionA == [vehicle_id |-> 1, inspector_id |-> 1, inspection_date |-> 20240115]
InspectionB == [vehicle_id |-> 1, inspector_id |-> 1, inspection_date |-> 20240220,
                notes |-> "Recheck brakes"]
ItemA == [item_name |-> "Brakes", status |-> "fail"]
ItemB == [item_name |-> "Lights", status |-> "pass", comments |-> "Replaced"]

Store(vs, is, ns, ts) ==
    [vehicles |-> vs, inspectors |-> is, inspections |-> ns, items |-> ts]

TwoRowStores ==
    {Store({vehicleRow(1, VehicleA, 0), vehicleRow(2, VehicleB, 0)}, {}, {}, {}),
     Store({}, {inspectorRow(1, InspectorA, 0), inspectorRow(2, InspectorB, 0)}, {}, {}),
     Store({vehicleRow(1, VehicleC, 0)}, {inspectorRow(1, InspectorC, 0)},
           {inspectionRow(1, InspectionA, 0), inspectionRow(2, InspectionB, 0)}, {}),
     Store({vehicleRow(1, VehicleC, 0)}, {inspectorRow(1, InspectorC, 0)},
           {inspectionRow(1, InspectionA, 0)},
           {itemRow(1, 1, ItemA, 0), itemRow(2, 1, ItemB, 0)})}

\* a vehicle and an inspector, nothing inspected yet
NewInspectionStores ==
    {Store({vehicleRow(1, VehicleC, 0)}, {inspectorRow(1, InspectorC, 0)}, {}, {})}

\* two vehicles and an inspector, nothing inspected yet
ChecklistStores ==
    {Store({vehicleRow(1, VehicleC, 0), vehicleRow(2, VehicleA, 0)},
           {inspectorRow(1, InspectorC, 0)}, {}, {})}

\* the n-th inspection of the report stores: vehicles alternate, every third
\* inspection is completed, created one per clock tick except that the third
\* follows the second within one tick
ReportInspection(n) ==
    [inspectionRow(n, [vehicle_id |-> 1 + (n % 2), inspector_id |-> 1,
                       inspection_date |-> 20240115], IF n = 3 THEN 2 ELSE n)
        EXCEPT !.completed = (n % 3 = 0)]

ReportSizes == {0, 11, 12}

\* two vehicles, an inspector and 0 to 12 inspections
ReportStores ==
    {Store({vehicleRow(1, VehicleC, 0), vehicleRow(2, VehicleA, 0)},
           {inspectorRow(1, InspectorC, 0)},
           {ReportInspection(n) : n \in 1..size}, {}) : size \in ReportSizes}

\* one row in each table, each with the last id but one of its sequence
AllStores ==
    {Store({vehicleRow(MaxVehicleId - 1, VehicleA, 0)},
           {inspectorRow(MaxInspectorId - 1, InspectorA, 0)},
           {inspectionRow(MaxInspectionId - 1,
                          [vehicle_id |-> MaxVehicleId - 1,
                           inspector_id |-> MaxInspectorId - 1,
                           inspection_date |-> 20240115], 0)},
           {itemRow(MaxItemId - 1, MaxInspectionId - 1, ItemA, 0)})}

\* two vehicles; two inspectors; one row in each table
ClockStores ==
    {Store({vehicleRow(1, VehicleA, 0), vehicleRow(2, VehicleB, 0)}, {}, {}, {}),
     Store({}, {inspectorRow(1, InspectorA, 0), inspectorRow(2, InspectorB, 0)}, {}, {}),
     Store({vehicleRow(1, VehicleC, 0)}, {inspectorRow(1, InspectorC, 0)},
           {inspectionRow(1, InspectionA, 0)}, {itemRow(1, 1, ItemA, 0)})}

-----------------------------------------------------------------------------
(* Specifications *)

Init ==
    /\ vehicles = {}
    /\ inspectors = {}
    /\ inspections = {}
    /\ items = {}
    /\ nextVehicleId = 1
    /\ nextInspectorId = 1
    /\ nextInspectionId = 1
    /\ nextItemId = 1
    /\ now = 0
    /\ last = Returned("init", 0, NoValue)
    /\ calls = [p \in Requests |-> Idle]

CreateVehicle == \E input \in CreateVehicleInputs : createVehicle(input)
UpdateVehicleKeys == \E input \in UpdateVehicleKeyInputs : updateVehicle(input)
DeleteVehicle == \E id \in VehicleIdArgs : deleteVehicle(id)
GetVehicleById == \E id \in VehicleIdArgs : getVehicleById(id)

\* the vehicle handlers, one call at a time
NextVehicles ==
    \/ CreateVehicle
    \/ UpdateVehicleKeys
    \/ DeleteVehicle
    \/ GetVehicleById

SpecVehicles == Init /\ [][NextVehicles]_vars

CreateInspector == \E input \in CreateInspectorInputs : createInspector(input)
UpdateInspector == \E input \in UpdateInspectorInputs : updateInspector(input)
DeleteInspector == \E id \in InspectorIdArgs : deleteInspector(id)
GetInspectorById == \E id \in InspectorIdArgs : getInspectorById(id)
CreateSeedVehicle == \E input \in SeedVehicleInputs : createVehicle(input)
CreateSeedInspection == \E input \in SeedInspectionInputs : createInspection(input)

\* the inspector handlers, one call at a time, with the vehicle and the
\* inspections that deleteInspector's reference check needs
NextInspectors ==
    \/ CreateInspector
    \/ UpdateInspector
    \/ DeleteInspector
    \/ GetInspectorById
    \/ CreateSeedVehicle
    \/ CreateSeedInspection

SpecInspectors == Init /\ [][NextInspectors]_vars

CreateTwoVehicles == \E input \in TwoVehicleInputs : createVehicle(input)
CreateSeedInspector == \E input \in SeedInspectorInputs : createInspector(input)
CreateSeedItems == \E input \in SeedItemsInputs : createInspectionItems(input)

\* vehicles with inspections and checklist items, created and deleted
NextCascade ==
    \/ CreateTwoVehicles
    \/ CreateSeedInspector
    \/ CreateSeedInspection
    \/ CreateSeedItems
    \/ DeleteVehicle

SpecCascade == Init /\ [][NextCascade]_vars

\* a store built by the create handlers at time 0
InitStore(stores) ==
    /\ \E st \in stores :
        /\ vehicles = st.vehicles
        /\ inspectors = st.inspectors
        /\ inspections = st.inspections
        /\ items = st.items
        /\ nextVehicleId = Cardinality(st.vehicles) + 1
        /\ nextInspectorId = Cardinality(st.inspectors) + 1
        /\ nextInspectionId = Cardinality(st.inspections) + 1
        /\ nextItemId = Cardinality(st.items) + 1
    /\ now = 0
    /\ last = Returned("init", 0, NoValue)
    /\ calls = [p \in Requests |-> Idle]

UpdateVehicle == \E input \in UpdateVehicleInputs : updateVehicle(input)
UpdateInspection == \E input \in UpdateInspectionInputs : updateInspection(input)
UpdateInspectionItem == \E input \in UpdateInspectionItemInputs : updateInspectionItem(input)

PatchInspector == \E input \in PatchInspectorInputs : updateInspector(input)

\* the four update handlers on stores that hold two rows of a table
NextPatch ==
    \/ UpdateVehicle
    \/ PatchInspector
    \/ UpdateInspection
    \/ UpdateInspectionItem

SpecPatch == InitStore(TwoRowStores) /\ [][NextPatch]_vars

TouchVehicle == \E input \in TouchVehicleInputs : updateVehicle(input)
TouchInspector == \E input \in TouchInspectorInputs : updateInspector(input)
TouchInspection == \E input \in TouchInspectionInputs : updateInspection(input)
TouchInspectionItem == \E input \in TouchInspectionItemInputs : updateInspectionItem(input)

\* the four update handlers and the two delete handlers while time passes
NextClock ==
    \/ TouchVehicle
    \/ TouchInspector
    \/ TouchInspection
    \/ TouchInspectionItem
    \/ DeleteVehicle
    \/ DeleteInspector
    \/ Tick

SpecClock == InitStore(ClockStores) /\ [][NextClock]_vars

-----------------------------------------------------------------------------
(* Properties of the vehicle handlers *)

VehicleRow(id) == CHOOSE v \in vehicles : v.id = id

\* some vehicle other than `id` holds this VIN / this license plate
VinHeldByOther(id, vin) == \E v \in vehicles : v.id # id /\ v.vin = vin

PlateHeldByOther(id, plate) == \E v \in vehicles : v.id # id /\ v.license_plate = plate

\* C1: no two distinct vehicles share a VIN, and no two share a license plate
C1_VinAndPlateUnique ==
    \A v1, v2 \in vehicles :
        v1.id # v2.id => v1.vin # v2.vin /\ v1.license_plate # v2.license_plate

\* C3: updateVehicle on an existing id throws a conflict naming the colliding
\* field exactly when the patch supplies a vin or a license_plate that a
\* different vehicle holds; otherwise the patch is applied
C3_UpdateVehicleConflictIff ==
    [][(last'.op = "updateVehicle" /\ \E v \in vehicles : v.id = last'.input.id) =>
        LET input == last'.input
            vinCollides == Has(input, "vin") /\ VinHeldByOther(input.id, input.vin)
            plateCollides == Has(input, "license_plate")
                             /\ PlateHeldByOther(input.id, input.license_plate)
        IN  /\ last'.error.kind = "conflict" <=> (vinCollides \/ plateCollides)
            /\ last'.error.kind = "conflict" =>
                 \/ last'.error.field = "vin" /\ vinCollides
                 \/ last'.error.field = "license_plate" /\ plateCollides
            /\ ~(vinCollides \/ plateCollides) =>
                 /\ last'.error.kind = "none"
                 /\ set(VehicleRow(input.id), updateVehicleData(input)) \in vehicles'
      ]_vars

\* C4: createVehicle throws a conflict and adds no row when the input's VIN or
\* license plate is in use; otherwise it inserts exactly one row with a fresh
\* id carrying the input fields, and a following getVehicleById returns it
C4_CreateVehicle ==
    [][/\ last'.op = "createVehicle" =>
            LET input == last'.input
                inUse == \E v \in vehicles :
                            v.vin = input.vin \/ v.license_plate = input.license_plate
            IN  IF inUse
                THEN last'.error.kind = "conflict" /\ vehicles' = vehicles
                ELSE /\ last'.error.kind = "none"
                     /\ last'.value.tag = "row"
                     /\ LET row == last'.value.row
                        IN  /\ row \notin vehicles
                            /\ \A v \in vehicles : v.id # row.id
                            /\ vehicles' = vehicles \cup {row}
                            /\ row.make = input.make
                            /\ row.model = input.model
                            /\ row.year = input.year
                            /\ row.vin = input.vin
                            /\ row.license_plate = input.license_plate
       /\ (/\ last.op = "createVehicle"
           /\ last.error.kind = "none"
           /\ last'.op = "getVehicleById"
           /\ last'.input = last.value.row.id) =>
            last'.value = RowValue(last.value.row)
      ]_vars

\* createVehicle has inserted a vehicle next to an existing one
C4_Witness ==
    /\ last.op = "createVehicle"
    /\ last.error.kind = "none"
    /\ Cardinality(vehicles) = 2
    /\ last.value.row \in vehicles

\* C5: when the input of createVehicle collides on both VIN and license plate,
\* the error raised is the VIN conflict
C5_CreateVehicleVinFirst ==
    [][last'.op = "createVehicle" =>
        LET input == last'.input
        IN  (/\ \E v \in vehicles : v.vin = input.vin
             /\ \E v \in vehicles : v.license_plate = input.license_plate) =>
                last'.error = Conflict("vehicle", "vin", input.vin)
      ]_vars

-----------------------------------------------------------------------------
(* Properties of the inspector handlers *)

C7_DeleteInspector ==
    [][(last'.op = "deleteInspector" /\ \E i \in inspectors : i.id = last'.input) =>
        LET id == last'.input
            N == Cardinality({i \in inspections : i.inspector_id = id})
        IN  IF N >= 1
            THEN /\ last'.error = Referenced("inspector", id, N)
                 /\ inspectors' = inspectors
                 /\ inspections' = inspections
            ELSE /\ last'.error.kind = "none"
                 /\ last'.value = Success
                 /\ inspectors' = {i \in inspectors : i.id # id}
                 /\ Cardinality(inspectors') = Cardinality(inspectors) - 1
                 /\ inspections' = inspections
      ]_vars

\* deleteInspector has refused to delete an inspector that two inspections reference
C7_Witness ==
    /\ last.op = "deleteInspector"
    /\ last.error.kind = "referenced"
    /\ last.error.count = 2
    /\ \E i \in inspectors : i.id = last.input
    /\ Cardinality({i \in inspections : i.inspector_id = last.input}) = 2

-----------------------------------------------------------------------------
(* Properties of the inspection handlers *)

\* C10: createInspection throws vehicle-not-found whenever vehicle_id references
\* no vehicle, whether or not inspector_id is valid; it throws
\* inspector-not-found only when the vehicle exists and the inspector does not;
\* in both cases no inspection is inserted
C10_CreateInspectionVehicleFirst ==
    [][last'.op = "createInspection" =>
        LET input == last'.input
            vehicleExists == \E v \in vehicles : v.id = input.vehicle_id
            inspectorExists == \E i \in inspectors : i.id = input.inspector_id
        IN  /\ ~vehicleExists => last'.error = NotFound("vehicle", input.vehicle_id)
            /\ last'.error = NotFound("inspector", input.inspector_id)
                    <=> (vehicleExists /\ ~inspectorExists)
            /\ (~vehicleExists \/ ~inspectorExists) =>
                    /\ last'.error.kind = "not_found"
                    /\ inspections' = inspections
                    /\ nextInspectionId' = nextInspectionId
      ]_vars

\* createInspection has thrown vehicle-not-found for an input whose inspector
\* does not exist either, in a store that has vehicles and inspectors
C10_Witness ==
    /\ last.op = "createInspection"
    /\ last.error = NotFound("vehicle", last.input.vehicle_id)
    /\ ~ \E i \in inspectors : i.id = last.input.inspector_id
    /\ vehicles # {}
    /\ inspectors # {}

-----------------------------------------------------------------------------
(* Properties of the cascade *)

\* C6: a successful deleteVehicle(id) removes exactly that vehicle, the
\* inspections whose vehicle_id is id and the items of those inspections, and
\* leaves every inspector and every other vehicle, inspection and item as it was
C6_DeleteVehicleCascade ==
    [][(last'.op = "deleteVehicle" /\ last'.error.kind = "none") =>
        LET id == last'.input
            goneInspections == {i \in inspections : i.vehicle_id = id}
            goneItems == {it \in items :
                            \E i \in goneInspections : it.inspection_id = i.id}
        IN  /\ \E v \in vehicles : v.id = id
            /\ vehicles' = {v \in vehicles : v.id # id}
            /\ inspections' = {i \in inspections : i.vehicle_id # id}
            /\ items' = items \ goneItems
            /\ \A it \in items' : \E i \in inspections' : it.inspection_id = i.id
            /\ inspectors' = inspectors
      ]_vars

\* deleteVehicle has succeeded and another vehicle with an inspection and
\* items is still there, while inspection 1 and its items are gone
C6_Witness ==
    /\ last.op = "deleteVehicle"
    /\ last.error.kind = "none"
    /\ vehicles # {}
    /\ inspections # {}
    /\ items # {}
    /\ inspectors # {}
    /\ nextInspectionId > Cardinality(inspections) + 1
    /\ nextItemId > Cardinality(items) + 1

\* the database of `stores` at time t
InitStoreAt(stores, t) ==
    /\ \E st \in stores :
        /\ vehicles = st.vehicles
        /\ inspectors = st.inspectors
        /\ inspections = st.inspections
        /\ items = st.items
        /\ nextVehicleId = Cardinality(st.vehicles) + 1
        /\ nextInspectorId = Cardinality(st.inspectors) + 1
        /\ nextInspectionId = Cardinality(st.inspections) + 1
        /\ nextItemId = Cardinality(st.items) + 1
    /\ now = t
    /\ last = Returned("init", 0, NoValue)
    /\ calls = [p \in Requests |-> Idle]

GetInspectionReport == getInspectionReport

\* the report over stores of up to 12 inspections, some of which get
\* completed, get checklist items or go away with their vehicle
NextReport ==
    \/ GetInspectionReport
    \/ TouchInspection
    \/ CreateSeedItems
    \/ DeleteVehicle

SpecReport == InitStoreAt(ReportStores, 12) /\ [][NextReport]_vars

CreateInspection == \E input \in CreateInspectionInputs : createInspection(input)
GetInspectionDetails == \E input \in GetInspectionDetailsInputs : getInspectionDetails(input)

\* inspections of one vehicle by one inspector
NextNewInspection ==
    \/ CreateInspection
    \/ GetInspectionDetails

SpecNewInspection == InitStore(NewInspectionStores) /\ [][NextNewInspection]_vars

\* inspections of two vehicles by one inspector, and their checklists
NextChecklist ==
    \/ CreateSeedInspection
    \/ CreateSeedItems
    \/ GetInspectionDetails

SpecChecklist == InitStore(ChecklistStores) /\ [][NextChecklist]_vars

-----------------------------------------------------------------------------
(* Properties of the inspections and their checklists *)

\* C11: the inspection a successful createInspection inserts has completed =
\* false whatever the input contains, the input's vehicle_id, inspector_id and
\* inspection_date, and notes = null when the input has no notes
C11_CreateInspectionRow ==
    [][(last'.op = "createInspection" /\ last'.error.kind = "none") =>
        \E row \in inspections' \ inspections :
            /\ inspections' = inspections \cup {row}
            /\ last'.value = RowValue(row)
            /\ row.completed = FALSE
            /\ row.vehicle_id = last'.input.vehicle_id
            /\ row.inspector_id = last'.input.inspector_id
            /\ row.inspection_date = last'.input.inspection_date
            /\ ~Has(last'.input, "notes") => row.notes = Null
      ]_vars

\* createInspection has inserted an inspection from an input that carries
\* completed: true and no notes
C11_Witness ==
    /\ last.op = "createInspection"
    /\ last.error.kind = "none"
    /\ Has(last.input, "completed")
    /\ last.input.completed = TRUE
    /\ ~Has(last.input, "notes")
    /\ \E n \in inspections :
            n.id = last.value.row.id /\ n.completed = FALSE /\ n.notes = Null

\* C13: createInspectionItems with an inspection_id that no inspection has
\* fails with the not-found error and writes nothing, whatever the items array,
\* the empty one included; with an existing inspection and an empty items
\* array it returns an empty list and writes nothing
C13_CreateItemsEmptyOrMissing ==
    [][last'.op = "createInspectionItems" =>
        LET input == last'.input
            exists == \E n \in inspections : n.id = input.inspection_id
        IN  /\ ~exists =>
                    /\ last'.error = NotFound("inspection", input.inspection_id)
                    /\ UNCHANGED <<tables, serials>>
            /\ (exists /\ Len(input.items) = 0) =>
                    /\ last'.error.kind = "none"
                    /\ last'.value = RowsValue(<<>>)
                    /\ UNCHANGED <<tables, serials>>
      ]_vars

\* createInspectionItems has refused an empty items array for an inspection
\* that does not exist, while another inspection does
C13_Witness ==
    /\ last.op = "createInspectionItems"
    /\ Len(last.input.items) = 0
    /\ last.error.kind = "not_found"
    /\ inspections # {}
    /\ \A n \in inspections : n.id # last.input.inspection_id

\* C14: a successful createInspectionItems with k >= 1 items adds exactly k
\* new item rows, the j-th with the input's inspection_id and the j-th input's
\* item_name and status, and comments = null when that input has no comments;
\* it returns them in input order and changes no existing item, inspection,
\* vehicle or inspector
C14_CreateItemsRows ==
    [][(/\ last'.op = "createInspectionItems"
        /\ last'.error.kind = "none"
        /\ Len(last'.input.items) >= 1) =>
        LET input == last'.input
            k == Len(input.items)
            rows == last'.value.rows
        IN  /\ Len(rows) = k
            /\ items' = items \cup {rows[j] : j \in 1..k}
            /\ Cardinality(items') = Cardinality(items) + k
            /\ \A j \in 1..k :
                    /\ rows[j] \notin items
                    /\ \A it \in items : it.id # rows[j].id
                    /\ rows[j].inspection_id = input.inspection_id
                    /\ rows[j].item_name = input.items[j].item_name
                    /\ rows[j].status = input.items[j].status
                    /\ ~Has(input.items[j], "comments") => rows[j].comments = Null
            /\ UNCHANGED <<vehicles, inspectors, inspections>>
      ]_vars

\* createInspectionItems has added two items, the first without comments, to
\* an inspection
C14_Witness ==
    /\ last.op = "createInspectionItems"
    /\ last.error.kind = "none"
    /\ Len(last.input.items) = 2
    /\ ~Has(last.input.items[1], "comments")
    /\ Has(last.input.items[2], "comments")
    /\ \A j \in 1..2 : last.value.rows[j] \in items
    /\ last.value.rows[1].comments = Null
    /\ last.value.rows[1].id < last.value.rows[2].id

\* C20: getInspectionDetails returns null when no inspection has the id;
\* otherwise the inspection's own fields, the vehicle whose id is its
\* vehicle_id, the inspector whose id is its inspector_id, and exactly the
\* items whose inspection_id is the id (none: the empty list); it changes
\* nothing in the store
C20_GetInspectionDetails ==
    [][last'.op = "getInspectionDetails" =>
        LET id == last'.input.inspection_id
            ns == {n \in inspections : n.id = id}
            its == {it \in items : it.inspection_id = id}
            d == last'.value.details
        IN  /\ UNCHANGED <<tables, serials>>
            /\ last'.error.kind = "none"
            /\ ns = {} => last'.value = NullValue
            /\ ns # {} =>
                    /\ last'.value.tag = "details"
                    /\ \E n \in ns : \A f \in DOMAIN n : d[f] = n[f]
                    /\ d.vehicle \in vehicles
                    /\ d.vehicle.id = d.vehicle_id
                    /\ d.inspector \in inspectors
                    /\ d.inspector.id = d.inspector_id
                    /\ Len(d.items) = Cardinality(its)
                    /\ {d.items[j] : j \in 1..Len(d.items)} = its
      ]_vars

\* getInspectionDetails has returned an inspection of the second vehicle with
\* its one item while another inspection has an item of its own
C20_Witness ==
    /\ last.op = "getInspectionDetails"
    /\ last.value.tag = "details"
    /\ last.value.details.vehicle.id = 2
    /\ Len(last.value.details.items) = 1
    /\ Cardinality(items) = 2
    /\ Cardinality(vehicles) = 2

KeepVehicle == \E input \in KeepVehicleInputs : updateVehicle(input)
KeepInspector == \E input \in KeepInspectorInputs : updateInspector(input)
KeepInspectionItem == \E input \in KeepInspectionItemInputs : updateInspectionItem(input)
CompleteInspection == \E input \in CompleteInspectionInputs : updateInspection(input)
GetVehicles == getVehicles
GetInspectors == getInspectors
GetInspections == getInspections
GetVehicleInspections == \E input \in GetVehicleInspectionsInputs : getVehicleInspections(input)

\* every handler, called in any order
NextAll ==
    \/ CreateTwoVehicles
    \/ KeepVehicle
    \/ DeleteVehicle
    \/ GetVehicleById
    \/ GetVehicles
    \/ CreateInspector
    \/ KeepInspector
    \/ DeleteInspector
    \/ GetInspectorById
    \/ GetInspectors
    \/ CreateSeedInspection
    \/ CompleteInspection
    \/ GetInspections
    \/ GetInspectionDetails
    \/ GetVehicleInspections
    \/ GetInspectionReport
    \/ CreateSeedItems
    \/ KeepInspectionItem

\* the database of `stores` when every sequence has one id left to hand out
InitLastIds(stores) ==
    /\ \E st \in stores :
        /\ vehicles = st.vehicles
        /\ inspectors = st.inspectors
        /\ inspections = st.inspections
        /\ items = st.items
    /\ nextVehicleId = MaxVehicleId
    /\ nextInspectorId = MaxInspectorId
    /\ nextInspectionId = MaxInspectionId
    /\ nextItemId = MaxItemId
    /\ now = 0
    /\ last = Returned("init", 0, NoValue)
    /\ calls = [p \in Requests |-> Idle]

SpecAll == InitLastIds(AllStores) /\ [][NextAll]_vars

-----------------------------------------------------------------------------
(* Properties of every handler *)

\* C17: a handler call that fails, with not-found, a uniqueness conflict or
\* inspector-still-referenced, leaves the vehicles, inspectors, inspections
\* and inspection items exactly as they were before the call
C17_FailureWritesNothing ==
    [][last'.error.kind # "none" => UNCHANGED tables]_vars

\* deleteInspector has failed at its last check, the reference check, and the
\* inspector is still there
C17_Witness ==
    /\ last.op = "deleteInspector"
    /\ last.error.kind = "referenced"
    /\ \E i \in inspectors : i.id = last.input
    /\ \E n \in inspections : n.inspector_id = last.input

\* C12: the completed flag of an existing inspection changes only in a
\* successful updateInspection call whose input has completed and that
\* inspection's id; every other call of every handler leaves the completed
\* flag of every inspection as it was
C12_CompletedOnlyExplicit ==
    [][\A old \in inspections : \A new \in inspections' :
            (old.id = new.id /\ old.completed # new.completed) =>
                /\ last'.op = "updateInspection"
                /\ last'.error.kind = "none"
                /\ Has(last'.input, "completed")
                /\ last'.input.id = old.id
                /\ new.completed = last'.input.completed
      ]_vars

\* createInspectionItems has added a checklist whose items all pass to an
\* inspection, and the inspection is still not completed
C12_Witness ==
    /\ last.op = "createInspectionItems"
    /\ last.error.kind = "none"
    /\ Len(last.input.items) >= 1
    /\ \A j \in 1..Len(last.input.items) : last.input.items[j].status = "pass"
    /\ \E n \in inspections :
            /\ n.id = last.input.inspection_id
            /\ n.completed = FALSE
            /\ \A it \in items : it.inspection_id = n.id => it.status = "pass"

UpdateOps == {"updateVehicle", "updateInspector", "updateInspection", "updateInspectionItem"}

\* the table an update or delete handler looks its id up in
TargetOf(op) ==
    CASE op \in {"updateVehicle", "deleteVehicle"} -> vehicles
      [] op \in {"updateInspector", "deleteInspector"} -> inspectors
      [] op = "updateInspection" -> inspections
      [] op = "updateInspectionItem" -> items

EntityOf(op) ==
    CASE op \in {"updateVehicle", "deleteVehicle"} -> "vehicle"
      [] op \in {"updateInspector", "deleteInspector"} -> "inspector"
      [] op = "updateInspection" -> "inspection"
      [] op = "updateInspectionItem" -> "inspection_item"

\* the id a call was given: the argument of a delete, input.id of an update
IdOf(call) == IF call.op \in {"deleteVehicle", "deleteInspector"} THEN call.input ELSE call.input.id

\* C18: updateVehicle, updateInspector, updateInspection, updateInspectionItem,
\* deleteVehicle and deleteInspector, called with an id that no row of their
\* table has, throw the not-found error naming the entity and the id and
\* return nothing
C18_NotFound ==
    [][(/\ last'.op \in UpdateOps \cup {"deleteVehicle", "deleteInspector"}
        /\ \A row \in TargetOf(last'.op) : row.id # IdOf(last')) =>
            /\ last'.error.kind = "not_found"
            /\ last'.error.entity = EntityOf(last'.op)
            /\ last'.error.id = IdOf(last')
            /\ last'.value = NoValue
            /\ UNCHANGED tables
      ]_vars

\* updateInspectionItem has refused an id that no item has while the table
\* holds another item
C18_Witness ==
    /\ last.op = "updateInspectionItem"
    /\ last.error.kind = "not_found"
    /\ last.error.entity = "inspection_item"
    /\ last.error.id = last.input.id
    /\ last.input.id # 0
    /\ items # {}

-----------------------------------------------------------------------------
(* Properties of the report *)

\* C15: the report's total_inspections is the number of inspections in the
\* store, completed_inspections the number of those with completed = true,
\* and pending_inspections = total - completed the number with completed =
\* false; all three are 0 when there is no inspection
C15_ReportCounts ==
    [][last'.op = "getInspectionReport" =>
        LET report == last'.value.report
        IN  /\ last'.error.kind = "none"
            /\ report.total_inspections = Cardinality(inspections)
            /\ report.completed_inspections =
                    Cardinality({n \in inspections : n.completed = TRUE})
            /\ report.pending_inspections =
                    report.total_inspections - report.completed_inspections
            /\ report.pending_inspections =
                    Cardinality({n \in inspections : n.completed = FALSE})
            /\ inspections = {} =>
                    /\ report.total_inspections = 0
                    /\ report.completed_inspections = 0
                    /\ report.pending_inspections = 0
      ]_vars

\* the report has counted twelve inspections, some completed, some pending
C15_Witness ==
    /\ last.op = "getInspectionReport"
    /\ last.value.report.total_inspections = 12
    /\ last.value.report.completed_inspections > 4
    /\ last.value.report.pending_inspections > 0

\* C16: recent_inspections holds exactly min(10, total) inspections, each
\* once; they are inspections of the store than which no inspection left out
\* was created later, in non-increasing created_at order, each with its own
\* vehicle, its own inspector and exactly the items whose inspection_id is its
\* id
C16_ReportRecent ==
    [][last'.op = "getInspectionReport" =>
        LET recent == last'.value.report.recent_inspections
            total == Cardinality(inspections)
            ids == {recent[k].id : k \in 1..Len(recent)}
        IN  /\ Len(recent) = IF total < 10 THEN total ELSE 10
            /\ Cardinality(ids) = Len(recent)
            /\ \A k \in 1..Len(recent) :
                    /\ \E n \in inspections : \A f \in DOMAIN n : recent[k][f] = n[f]
                    /\ \A n \in inspections :
                            n.id \notin ids => recent[k].created_at >= n.created_at
                    /\ k < Len(recent) => recent[k].created_at >= recent[k + 1].created_at
                    /\ recent[k].vehicle \in vehicles
                    /\ recent[k].vehicle.id = recent[k].vehicle_id
                    /\ recent[k].inspector \in inspectors
                    /\ recent[k].inspector.id = recent[k].inspector_id
                    /\ Len(recent[k].items) =
                            Cardinality({it \in items : it.inspection_id = recent[k].id})
                    /\ {recent[k].items[j] : j \in 1..Len(recent[k].items)} =
                            {it \in items : it.inspection_id = recent[k].id}
      ]_vars

\* the report lists ten of twelve inspections; the last listed was created
\* within the same tick as one left out, and an inspection listed has an item
C16_Witness ==
    /\ last.op = "getInspectionReport"
    /\ Cardinality(inspections) = 12
    /\ Len(last.value.report.recent_inspections) = 10
    /\ \E n \in inspections :
            /\ \A k \in 1..10 : last.value.report.recent_inspections[k].id # n.id
            /\ n.created_at = last.value.report.recent_inspections[10].created_at
    /\ \E k \in 1..10 : Len(last.value.report.recent_inspections[k].items) > 0

-----------------------------------------------------------------------------
(* Properties of the update handlers *)

\* `new` is `old` with the properties of the input written over it; updated_at
\* is the handler's own and is not compared
Patched(old, new, input) ==
    /\ DOMAIN new = DOMAIN old
    /\ \A f \in DOMAIN old \ {"updated_at"} :
            new[f] = IF f \in DOMAIN input THEN input[f] ELSE old[f]

\* table `after` is table `before` with the row input.id patched and every
\* other row as it was
SparsePatch(before, after, input) ==
    \E old \in before : \E new \in after :
        /\ old.id = input.id
        /\ new.id = input.id
        /\ Patched(old, new, input)
        /\ after \ {new} = before \ {old}

\* C8: a successful updateVehicle, updateInspector, updateInspection or
\* updateInspectionItem leaves in the target row every column the input omits
\* as it was and every column the input supplies at the supplied value, an
\* explicit null included (updated_at apart, which the handler sets itself),
\* and changes no other row of any table
C8_SparsePatch ==
    [][last'.error.kind = "none" =>
        /\ last'.op = "updateVehicle" =>
                /\ SparsePatch(vehicles, vehicles', last'.input)
                /\ UNCHANGED <<inspectors, inspections, items>>
        /\ last'.op = "updateInspector" =>
                /\ SparsePatch(inspectors, inspectors', last'.input)
                /\ UNCHANGED <<vehicles, inspections, items>>
        /\ last'.op = "updateInspection" =>
                /\ SparsePatch(inspections, inspections', last'.input)
                /\ UNCHANGED <<vehicles, inspectors, items>>
        /\ last'.op = "updateInspectionItem" =>
                /\ SparsePatch(items, items', last'.input)
                /\ UNCHANGED <<vehicles, inspectors, inspections>>
      ]_vars

\* updateInspection has stored an explicit null in the notes of a completed
\* inspection whose input omitted completed, next to another inspection
C8_Witness ==
    /\ last.op = "updateInspection"
    /\ last.error.kind = "none"
    /\ Has(last.input, "notes")
    /\ last.input.notes = Null
    /\ ~Has(last.input, "completed")
    /\ Cardinality(inspections) = 2
    /\ \E i \in inspections :
            i.id = last.input.id /\ i.notes = Null /\ i.completed = TRUE


TableOf(op, vs, is, ns, ts) ==
    CASE op = "updateVehicle" -> vs
      [] op = "updateInspector" -> is
      [] op = "updateInspection" -> ns
      [] op = "updateInspectionItem" -> ts

SameCreatedAt(before, after) ==
    \A old \in before : \A new \in after : old.id = new.id => new.created_at = old.created_at

\* C9: every successful update of a vehicle, inspector, inspection or item,
\* whatever the patch supplies, sets the row's updated_at to the clock, which
\* is greater than the previous updated_at when the clock has advanced since;
\* and no step changes the created_at of a row
C9_UpdatedAtRefreshed ==
    [][/\ (last'.op \in UpdateOps /\ last'.error.kind = "none") =>
            \E old \in TableOf(last'.op, vehicles, inspectors, inspections, items) :
            \E new \in TableOf(last'.op, vehicles', inspectors', inspections', items') :
                /\ old.id = last'.input.id
                /\ new.id = last'.input.id
                /\ new.updated_at = now
                /\ new.updated_at >= old.updated_at
                /\ now > old.updated_at => new.updated_at > old.updated_at
                /\ last'.value = RowValue(new)
       /\ SameCreatedAt(vehicles, vehicles')
       /\ SameCreatedAt(inspectors, inspectors')
       /\ SameCreatedAt(inspections, inspections')
       /\ SameCreatedAt(items, items')
      ]_vars

\* updateInspection with a patch that supplies only the id has moved
\* updated_at past created_at
C9_Witness ==
    /\ last.op = "updateInspection"
    /\ last.error.kind = "none"
    /\ DOMAIN last.input = {"id"}
    /\ \E i \in inspections :
            i.id = last.input.id /\ i.updated_at = now /\ i.updated_at > i.created_at

-----------------------------------------------------------------------------
(* The inspections of a vehicle *)

\* two vehicles and an inspector with two inspections: of one vehicle on two
\* dates, of one vehicle on one date, of either vehicle
VehicleInspectionStores ==
    {Store({vehicleRow(1, VehicleC, 0), vehicleRow(2, VehicleA, 0)},
           {inspectorRow(1, InspectorC, 0)},
           {inspectionRow(1, [InspectionA EXCEPT !.vehicle_id = v[1]], 0),
            inspectionRow(2, [InspectionB EXCEPT !.vehicle_id = v[2],
                                                 !.inspection_date = d], 0)},
           {}) :
        v \in {<<1, 1>>, <<2, 1>>}, d \in {20240115, 20240220}}

\* getVehicleInspections while checklists are added and vehicles deleted
NextVehicleInspections ==
    \/ GetVehicleInspections
    \/ CreateSeedItems
    \/ DeleteVehicle

SpecVehicleInspections == InitStore(VehicleInspectionStores) /\ [][NextVehicleInspections]_vars

\* C21: getVehicleInspections returns exactly the inspections whose
\* vehicle_id is the given id, each once (none, also for a vehicle that does
\* not exist: the empty list), in non-increasing order of inspection_date,
\* and each with exactly the items whose inspection_id is its id
C21_GetVehicleInspections ==
    [][last'.op = "getVehicleInspections" =>
        LET ns == {n \in inspections : n.vehicle_id = last'.input.vehicle_id}
            rows == last'.value.rows
        IN  /\ last'.error.kind = "none"
            /\ last'.value.tag = "rows"
            /\ Len(rows) = Cardinality(ns)
            /\ \A n \in ns : \E k \in 1..Len(rows) : \A f \in DOMAIN n : rows[k][f] = n[f]
            /\ \A k \in 1..Len(rows) - 1 :
                    rows[k].inspection_date >= rows[k + 1].inspection_date
            /\ \A k \in 1..Len(rows) :
                    LET its == {it \in items : it.inspection_id = rows[k].id}
                    IN  /\ Len(rows[k].items) = Cardinality(its)
                        /\ {rows[k].items[j] : j \in 1..Len(rows[k].items)} = its
      ]_vars

\* getVehicleInspections has returned the two inspections of a vehicle, the
\* later one first, each with its one item, while the other vehicle exists
C21_Witness ==
    /\ last.op = "getVehicleInspections"
    /\ Len(last.value.rows) = 2
    /\ last.value.rows[1].inspection_date > last.value.rows[2].inspection_date
    /\ \A k \in 1..2 : Len(last.value.rows[k].items) = 1
    /\ Cardinality(vehicles) = 2

\* getVehicleInspections has returned the empty list for a vehicle that does
\* not exist while the store holds inspections
C21_WitnessEmpty ==
    /\ last.op = "getVehicleInspections"
    /\ last.value.rows = <<>>
    /\ \A v \in vehicles : v.id # last.input.vehicle_id
    /\ inspections # {}

-----------------------------------------------------------------------------
(* Lookups by id *)

\* ids no row ever has, and the ids the sequences hand out
LookupVehicleIds == -1..MaxVehicleId
LookupInspectorIds == -1..MaxInspectorId

LookupVehicle == \E id \in LookupVehicleIds : getVehicleById(id)
LookupInspector == \E id \in LookupInspectorIds : getInspectorById(id)

\* vehicles and inspectors created, inspected, deleted and looked up
NextLookup ==
    \/ CreateTwoVehicles
    \/ CreateSeedInspector
    \/ CreateSeedInspection
    \/ DeleteVehicle
    \/ DeleteInspector
    \/ LookupVehicle
    \/ LookupInspector

SpecLookup == Init /\ [][NextLookup]_vars

\* C22: getVehicleById and getInspectorById return the row with the id when
\* the table holds one and null, never an error, when it does not (id 0, a
\* negative id, the id of a deleted row), and change nothing
C22_GetById ==
    [][last'.op \in {"getVehicleById", "getInspectorById"} =>
        LET rows == IF last'.op = "getVehicleById" THEN vehicles ELSE inspectors
            found == {r \in rows : r.id = last'.input}
        IN  /\ UNCHANGED <<tables, serials>>
            /\ last'.error.kind = "none"
            /\ found = {} => last'.value = NullValue
            /\ found # {} => /\ last'.value.tag = "row"
                             /\ last'.value.row \in found
      ]_vars

\* getVehicleById has returned null for the id of a vehicle that was deleted
\* while another vehicle is in the table
C22_Witness ==
    /\ last.op = "getVehicleById"
    /\ last.value = NullValue
    /\ last.input >= 1
    /\ last.input < nextVehicleId
    /\ vehicles # {}

\* getInspectorById has returned null for a negative id while the table
\* holds an inspector
C22_WitnessNegative ==
    /\ last.op = "getInspectorById"
    /\ last.value = NullValue
    /\ last.input < 0
    /\ inspectors # {}

-----------------------------------------------------------------------------
(* What an update may change *)

\* patches that carry, besides a column the handler copies, the columns it
\* does not
RedateInspectionInputs ==
    {[id |-> id, notes |-> Null,
      vehicle_id |-> 0, inspector_id |-> 0, inspection_date |-> 20240220] :
        id \in InspectionIdArgs}
RenameInspectionItemInputs ==
    {[id |-> id, comments |-> Null, inspection_id |-> 0, item_name |-> "Lights"] :
        id \in ItemIdArgs}

RedateInspection == \E input \in RedateInspectionInputs : updateInspection(input)
RenameInspectionItem == \E input \in RenameInspectionItemInputs : updateInspectionItem(input)

\* every handler, and updates whose input carries more than the handler copies
NextFrame ==
    \/ NextAll
    \/ RedateInspection
    \/ RenameInspectionItem

SpecFrame == InitLastIds(AllStores) /\ [][NextFrame]_vars

\* the columns of `row` outside `fields` are those of `old`
SameOutside(old, row, fields) == \A f \in DOMAIN old \ fields : row[f] = old[f]

\* C23: an inspection keeps its vehicle_id, inspector_id and inspection_date
\* and an item its inspection_id and item_name for as long as it exists;
\* updateInspection changes nothing but completed, notes and updated_at of
\* inspections, updateInspectionItem nothing but status, comments and
\* updated_at of items; an inspection or an item leaves its table only in a
\* deleteVehicle of the vehicle it belongs to
C23_Frame ==
    [][/\ \A n \in inspections :
            IF \E m \in inspections' : m.id = n.id
            THEN \A m \in inspections' :
                    m.id = n.id =>
                        /\ m.vehicle_id = n.vehicle_id
                        /\ m.inspector_id = n.inspector_id
                        /\ m.inspection_date = n.inspection_date
            ELSE /\ last'.op = "deleteVehicle"
                 /\ last'.input = n.vehicle_id
       /\ \A it \in items :
            IF \E jt \in items' : jt.id = it.id
            THEN \A jt \in items' :
                    jt.id = it.id =>
                        /\ jt.inspection_id = it.inspection_id
                        /\ jt.item_name = it.item_name
            ELSE /\ last'.op = "deleteVehicle"
                 /\ \E n \in inspections : /\ n.id = it.inspection_id
                                           /\ n.vehicle_id = last'.input
       /\ last'.op = "updateInspection" =>
            /\ UNCHANGED <<vehicles, inspectors, items, serials>>
            /\ {m.id : m \in inspections'} = {n.id : n \in inspections}
            /\ \A n \in inspections : \A m \in inspections' :
                    m.id = n.id =>
                        /\ SameOutside(n, m, {"completed", "notes", "updated_at"})
                        /\ n.id # last'.input.id => m = n
       /\ last'.op = "updateInspectionItem" =>
            /\ UNCHANGED <<vehicles, inspectors, inspections, serials>>
            /\ {jt.id : jt \in items'} = {it.id : it \in items}
            /\ \A it \in items : \A jt \in items' :
                    jt.id = it.id =>
                        /\ SameOutside(it, jt, {"status", "comments", "updated_at"})
                        /\ it.id # last'.input.id => jt = it
      ]_vars

\* updateInspection has succeeded on an input that carries another vehicle,
\* inspector and date than the row it returns, while an item exists
C23_Witness ==
    /\ last.op = "updateInspection"
    /\ last.error.kind = "none"
    /\ Has(last.input, "inspection_date")
    /\ last.value.row \in inspections
    /\ last.value.row.inspection_date # last.input.inspection_date
    /\ last.value.row.vehicle_id # last.input.vehicle_id
    /\ items # {}

-----------------------------------------------------------------------------
(* References between the tables *)

\* every inspection's vehicle and inspector and every item's inspection are
\* rows of the tables given
References(vs, is, ns, ts) ==
    /\ \A n \in ns : /\ \E v \in vs : v.id = n.vehicle_id
                     /\ \E i \in is : i.id = n.inspector_id
    /\ \A it \in ts : \E n \in ns : n.id = it.inspection_id

\* C26: when the handlers are called one at a time, in every state each
\* inspection's vehicle_id is the id of a vehicle in the store, its
\* inspector_id the id of an inspector in the store, and each item's
\* inspection_id the id of an inspection in the store
C26_ReferencesExist == References(vehicles, inspectors, inspections, items)

\* a vehicle has been deleted and its inspection and item with it, while the
\* other vehicle keeps an inspection with an item
C26_Witness ==
    /\ last.op = "deleteVehicle"
    /\ last.value = Success
    /\ nextInspectionId > MaxInspectionId
    /\ nextItemId > MaxItemId
    /\ Cardinality(inspections) = 1
    /\ Cardinality(items) = 1

-----------------------------------------------------------------------------
(* Handlers statement by statement *)

\* Each handler awaits its database statements one after the other, and the
\* statements of the calls in progress interleave. A step is one statement of
\* one call together with the handler's code up to the next statement; the
\* call's first statement runs when the request starts it. No statement
\* below stands for a storage-level constraint: only the handlers' own checks
\* are in force.

\* a call of `op` that has `read` what its statements returned so far and
\* runs the statement `pc` next
InProgress(op, pc, input, read) == [op |-> op, pc |-> pc, input |-> input, read |-> read]

\* request p is about to run statement pc of a call of op
At(p, op, pc) == calls[p].op = op /\ calls[p].pc = pc

\* createVehicle's lookup by VIN or license plate: on a match the call
\* throws, otherwise it goes on to its insert
createVehicleSelect(p, input) ==
    LET existingVehicles ==
            {v \in vehicles : v.vin = input.vin \/ v.license_plate = input.license_plate}
    IN  /\ calls[p] = Idle
        /\ \/ /\ existingVehicles # {}
              /\ \E existingVehicle \in existingVehicles :
                    last' = Threw("createVehicle", input,
                                  createVehicleConflict(existingVehicle, input))
              /\ UNCHANGED <<tables, serials, now, calls>>
           \/ /\ existingVehicles = {}
              /\ calls' = [calls EXCEPT ![p] =
                                InProgress("createVehicle", "insert", input, NoInput)]
              /\ UNCHANGED <<tables, serials, now, last>>

\* createVehicle's insert behind a unique index on vin and license_plate
createVehicleInsert_Unique(p) ==
    LET input == calls[p].input
        existingVehicles ==
            {v \in vehicles : v.vin = input.vin \/ v.license_plate = input.license_plate}
    IN  /\ At(p, "createVehicle", "insert")
        /\ calls' = [calls EXCEPT ![p] = Idle]
        /\ \/ /\ existingVehicles # {}
              /\ \E existingVehicle \in existingVehicles :
                    last' = Threw("createVehicle", input,
                                  createVehicleConflict(existingVehicle, input))
              /\ UNCHANGED <<tables, serials, now>>
           \/ /\ existingVehicles = {}
              /\ nextVehicleId <= MaxVehicleId
              /\ vehicles' = vehicles \cup {insertVehicle(input)}
              /\ nextVehicleId' = nextVehicleId + 1
              /\ last' = Returned("createVehicle", input, RowValue(insertVehicle(input)))
              /\ UNCHANGED <<inspectors, inspections, items,
                             nextInspectorId, nextInspectionId, nextItemId, now>>

\* createVehicle's insert and return
createVehicleInsert(p) ==
    LET input == calls[p].input
    IN  /\ At(p, "createVehicle", "insert")
        /\ nextVehicleId <= MaxVehicleId
        /\ vehicles' = vehicles \cup {insertVehicle(input)}
        /\ nextVehicleId' = nextVehicleId + 1
        /\ last' = Returned("createVehicle", input, RowValue(insertVehicle(input)))
        /\ calls' = [calls EXCEPT ![p] = Idle]
        /\ UNCHANGED <<inspectors, inspections, items,
                       nextInspectorId, nextInspectionId, nextItemId, now>>

\* vehicles of two VINs and two license plates
RaceVehicleInputs ==
    [make : {"Toyota"}, model : {"Camry"}, year : {2023},
     vin : {"1HGBH41JXMN109186", "2HGBH41JXMN109187"},
     license_plate : {"ABC123", "XYZ789"}]

CreateVehicleSelect == \E p \in Requests : \E input \in RaceVehicleInputs : createVehicleSelect(p, input)
CreateVehicleInsert == \E p \in Requests : createVehicleInsert(p)

\* createVehicle calls whose statements interleave
NextRaceVehicles ==
    \/ CreateVehicleSelect
    \/ CreateVehicleInsert

SpecRaceVehicles == Init /\ [][NextRaceVehicles]_vars

\* C24: when statements interleave, the insert of a createVehicle call whose
\* lookup found no match adds the call's row whatever the table holds by
\* then, so that two calls with one VIN that both looked up before either
\* inserted leave two vehicles sharing the VIN
C24_InsertAfterLookup ==
    [][\A p \in Requests :
            At(p, "createVehicle", "insert") /\ calls'[p] = Idle =>
                /\ last'.op = "createVehicle"
                /\ last'.error.kind = "none"
                /\ last'.value.row.vin = calls[p].input.vin
                /\ last'.value.row.license_plate = calls[p].input.license_plate
                /\ last'.value.row \notin vehicles
                /\ vehicles' = vehicles \cup {last'.value.row}
      ]_vars

\* two createVehicle calls with one VIN have both returned their row: two
\* vehicles share the VIN
C24_Witness ==
    /\ last.op = "createVehicle"
    /\ last.error.kind = "none"
    /\ \E v \in vehicles : \E w \in vehicles : v.id # w.id /\ v.vin = w.vin
    /\ \A p \in Requests : calls[p] = Idle

\* two createVehicle calls with one VIN have both completed their lookup
\* with no match and neither has inserted
C24_WitnessBothLookedUp ==
    /\ vehicles = {}
    /\ \E p \in Requests : \E q \in Requests :
            /\ p # q
            /\ At(p, "createVehicle", "insert")
            /\ At(q, "createVehicle", "insert")
            /\ calls[p].input.vin = calls[q].input.vin

-----------------------------------------------------------------------------
(* Checklists while vehicles are deleted *)

\* createInspectionItems' existence check that lets every inspection_id pass
createInspectionItemsSelect_NoCheck(p, input) ==
    /\ calls[p] = Idle
    /\ \/ /\ Len(input.items) = 0
          /\ last' = Returned("createInspectionItems", input, RowsValue(<<>>))
          /\ UNCHANGED <<tables, serials, now, calls>>
       \/ /\ Len(input.items) # 0
          /\ calls' = [calls EXCEPT ![p] =
                            InProgress("createInspectionItems", "insert", input, NoInput)]
          /\ UNCHANGED <<tables, serials, now, last>>

\* createInspectionItems' existence check, and the shortcut for an empty list
createInspectionItemsSelect(p, input) ==
    LET inspection == {i \in inspections : i.id = input.inspection_id}
    IN  /\ calls[p] = Idle
        /\ \/ /\ inspection = {}
              /\ last' = Threw("createInspectionItems", input,
                               NotFound("inspection", input.inspection_id))
              /\ UNCHANGED <<tables, serials, now, calls>>
           \/ /\ inspection # {}
              /\ Len(input.items) = 0
              /\ last' = Returned("createInspectionItems", input, RowsValue(<<>>))
              /\ UNCHANGED <<tables, serials, now, calls>>
           \/ /\ inspection # {}
              /\ Len(input.items) # 0
              /\ calls' = [calls EXCEPT ![p] =
                                InProgress("createInspectionItems", "insert", input, NoInput)]
              /\ UNCHANGED <<tables, serials, now, last>>

\* createInspectionItems' bulk insert and return
createInspectionItemsInsert(p) ==
    LET input == calls[p].input
        result == [k \in 1..Len(input.items) |-> insertItem(input, k)]
    IN  /\ At(p, "createInspectionItems", "insert")
        /\ nextItemId + Len(input.items) - 1 <= MaxItemId
        /\ items' = items \cup {result[k] : k \in 1..Len(input.items)}
        /\ nextItemId' = nextItemId + Len(input.items)
        /\ last' = Returned("createInspectionItems", input, RowsValue(result))
        /\ calls' = [calls EXCEPT ![p] = Idle]
        /\ UNCHANGED <<vehicles, inspectors, inspections,
                       nextVehicleId, nextInspectorId, nextInspectionId, now>>

\* deleteVehicle's existence check
deleteVehicleSelect(p, id) ==
    LET existingVehicle == {v \in vehicles : v.id = id}
    IN  /\ calls[p] = Idle
        /\ \/ /\ existingVehicle = {}
              /\ last' = Threw("deleteVehicle", id, NotFound("vehicle", id))
              /\ UNCHANGED <<tables, serials, now, calls>>
           \/ /\ existingVehicle # {}
              /\ calls' = [calls EXCEPT ![p] =
                                InProgress("deleteVehicle", "delete", id, NoInput)]
              /\ UNCHANGED <<tables, serials, now, last>>

\* deleteVehicle's delete, with the cascade, and return
deleteVehicleDelete(p) ==
    LET id == calls[p].input
    IN  /\ At(p, "deleteVehicle", "delete")
        /\ vehicles' = vehicles \ deletedVehicles(id)
        /\ inspections' = inspections \ cascadeInspections(deletedVehicles(id))
        /\ items' = items \ cascadeItems(cascadeInspections(deletedVehicles(id)))
        /\ last' = Returned("deleteVehicle", id, Success)
        /\ calls' = [calls EXCEPT ![p] = Idle]
        /\ UNCHANGED <<inspectors, serials, now>>

\* a vehicle and an inspector with one inspection
RaceItemStores ==
    {Store({vehicleRow(1, VehicleC, 0)}, {inspectorRow(1, InspectorC, 0)},
           {inspectionRow(1, InspectionA, 0)}, {})}

CreateInspectionItemsSelect ==
    \E p \in Requests : \E input \in SeedItemsInputs : createInspectionItemsSelect(p, input)
CreateInspectionItemsInsert == \E p \in Requests : createInspectionItemsInsert(p)
DeleteVehicleSelect == \E p \in Requests : \E id \in VehicleIdArgs : deleteVehicleSelect(p, id)
DeleteVehicleDelete == \E p \in Requests : deleteVehicleDelete(p)

\* createInspectionItems and deleteVehicle calls whose statements interleave
NextRaceItems ==
    \/ CreateInspectionItemsSelect
    \/ CreateInspectionItemsInsert
    \/ DeleteVehicleSelect
    \/ DeleteVehicleDelete

SpecRaceItems == InitStore(RaceItemStores) /\ [][NextRaceItems]_vars

\* C25 as claimed: when statements interleave, every item's inspection_id is
\* the id of an inspection in the store
C25_ItemsReferenceInspections ==
    \A it \in items : \E n \in inspections : n.id = it.inspection_id

\* C25 as amended: when statements interleave, a createInspectionItems call
\* goes on to its insert only if the inspection is in the store at its
\* check, its insert adds one item per input item, all with the call's
\* inspection_id, whether or not the inspection is still there, and every
\* item references an inspection id that has been handed out
C25_ItemsOfCheckedInspection ==
    [][/\ \A p \in Requests :
            /\ calls[p] = Idle /\ calls'[p].op = "createInspectionItems" =>
                    \E n \in inspections : n.id = calls'[p].input.inspection_id
            /\ At(p, "createInspectionItems", "insert") /\ calls'[p] = Idle =>
                    /\ last'.op = "createInspectionItems"
                    /\ last'.error.kind = "none"
                    /\ Len(last'.value.rows) = Len(calls[p].input.items)
                    /\ \A k \in 1..Len(last'.value.rows) :
                            /\ last'.value.rows[k].inspection_id = calls[p].input.inspection_id
                            /\ last'.value.rows[k] \notin items
                    /\ items' = items \cup {last'.value.rows[k] :
                                                k \in 1..Len(last'.value.rows)}
       /\ \A it \in items' : it.inspection_id \in 1..(nextInspectionId' - 1)
      ]_vars

\* createInspectionItems has returned its items after a deleteVehicle took
\* their inspection away: the items reference no inspection
C25_Witness ==
    /\ last.op = "createInspectionItems"
    /\ last.error.kind = "none"
    /\ items # {}
    /\ \A it \in items : \A n \in inspections : n.id # it.inspection_id
    /\ vehicles = {}

-----------------------------------------------------------------------------
(* Inspections while inspectors are deleted *)

\* createInspection's vehicle lookup
createInspectionSelectVehicle(p, input) ==
    LET vehicle == {v \in vehicles : v.id = input.vehicle_id}
    IN  /\ calls[p] = Idle
        /\ \/ /\ vehicle = {}
              /\ last' = Threw("createInspection", input,
                               NotFound("vehicle", input.vehicle_id))
              /\ UNCHANGED <<tables, serials, now, calls>>
           \/ /\ vehicle # {}
              /\ calls' = [calls EXCEPT ![p] =
                                InProgress("createInspection", "inspector", input, NoInput)]
              /\ UNCHANGED <<tables, serials, now, last>>

\* createInspection's inspector lookup that lets every inspector_id pass
createInspectionSelectInspector_NoCheck(p) ==
    /\ At(p, "createInspection", "inspector")
    /\ calls' = [calls EXCEPT ![p].pc = "insert"]
    /\ UNCHANGED <<tables, serials, now, last>>

\* createInspection's inspector lookup
createInspectionSelectInspector(p) ==
    LET input == calls[p].input
        inspector == {i \in inspectors : i.id = input.inspector_id}
    IN  /\ At(p, "createInspection", "inspector")
        /\ \/ /\ inspector = {}
              /\ last' = Threw("createInspection", input,
                               NotFound("inspector", input.inspector_id))
              /\ calls' = [calls EXCEPT ![p] = Idle]
              /\ UNCHANGED <<tables, serials, now>>
           \/ /\ inspector # {}
              /\ calls' = [calls EXCEPT ![p].pc = "insert"]
              /\ UNCHANGED <<tables, serials, now, last>>

\* createInspection's insert and return
createInspectionInsert(p) ==
    LET input == calls[p].input
    IN  /\ At(p, "createInspection", "insert")
        /\ nextInspectionId <= MaxInspectionId
        /\ inspections' = inspections \cup {insertInspection(input)}
        /\ nextInspectionId' = nextInspectionId + 1
        /\ last' = Returned("createInspection", input, RowValue(insertInspection(input)))
        /\ calls' = [calls EXCEPT ![p] = Idle]
        /\ UNCHANGED <<vehicles, inspectors, items,
                       nextVehicleId, nextInspectorId, nextItemId, now>>

\* deleteInspector's existence check
deleteInspectorSelect(p, id) ==
    LET existingInspector == {i \in inspectors : i.id = id}
    IN  /\ calls[p] = Idle
        /\ \/ /\ existingInspector = {}
              /\ last' = Threw("deleteInspector", id, NotFound("inspector", id))
              /\ UNCHANGED <<tables, serials, now, calls>>
           \/ /\ existingInspector # {}
              /\ calls' = [calls EXCEPT ![p] =
                                InProgress("deleteInspector", "associated", id, NoInput)]
              /\ UNCHANGED <<tables, serials, now, last>>

\* deleteInspector's query for the inspections of the inspector
deleteInspectorSelectAssociated(p) ==
    LET id == calls[p].input
    IN  /\ At(p, "deleteInspector", "associated")
        /\ \/ /\ Cardinality(associatedInspections(id)) > 0
              /\ last' = Threw("deleteInspector", id,
                               Referenced("inspector", id,
                                          Cardinality(associatedInspections(id))))
              /\ calls' = [calls EXCEPT ![p] = Idle]
              /\ UNCHANGED <<tables, serials, now>>
           \/ /\ Cardinality(associatedInspections(id)) = 0
              /\ calls' = [calls EXCEPT ![p].pc = "delete"]
              /\ UNCHANGED <<tables, serials, now, last>>

\* deleteInspector's delete and return
deleteInspectorDelete(p) ==
    LET id == calls[p].input
    IN  /\ At(p, "deleteInspector", "delete")
        /\ inspectors' = {i \in inspectors : i.id # id}
        /\ last' = Returned("deleteInspector", id, Success)
        /\ calls' = [calls EXCEPT ![p] = Idle]
        /\ UNCHANGED <<vehicles, inspections, items, serials, now>>

\* a vehicle and an inspector, and a vehicle and two inspectors one of whom
\* has inspected it
RaceInspectorStores ==
    {Store({vehicleRow(1, VehicleC, 0)}, {inspectorRow(1, InspectorC, 0)}, {}, {}),
     Store({vehicleRow(1, VehicleC, 0)},
           {inspectorRow(1, InspectorC, 0), inspectorRow(2, InspectorA, 0)},
           {inspectionRow(1, InspectionA, 0)}, {})}

CreateInspectionSelectVehicle ==
    \E p \in Requests : \E input \in SeedInspectionInputs : createInspectionSelectVehicle(p, input)
CreateInspectionSelectInspector == \E p \in Requests : createInspectionSelectInspector(p)
CreateInspectionInsert == \E p \in Requests : createInspectionInsert(p)
DeleteInspectorSelect ==
    \E p \in Requests : \E id \in InspectorIdArgs : deleteInspectorSelect(p, id)
DeleteInspectorSelectAssociated == \E p \in Requests : deleteInspectorSelectAssociated(p)
DeleteInspectorDelete == \E p \in Requests : deleteInspectorDelete(p)

\* createInspection and deleteInspector calls whose statements interleave
NextRaceInspectors ==
    \/ CreateInspectionSelectVehicle
    \/ CreateInspectionSelectInspector
    \/ CreateInspectionInsert
    \/ DeleteInspectorSelect
    \/ DeleteInspectorSelectAssociated
    \/ DeleteInspectorDelete

SpecRaceInspectors == InitStore(RaceInspectorStores) /\ [][NextRaceInspectors]_vars

\* C27 as claimed: when statements interleave, every inspection's
\* inspector_id is the id of an inspector in the store
C27_InspectionsReferenceInspectors ==
    \A n \in inspections : \E i \in inspectors : i.id = n.inspector_id

\* C27 as amended: when statements interleave, a createInspection call goes
\* on to its insert only if the inspector is in the store at its check, its
\* insert adds the inspection with the call's inspector_id whether or not
\* the inspector is still there, deleteInspector deletes only after counting
\* no inspection of the inspector, and every inspection references an
\* inspector id that has been handed out
C27_InspectionOfCheckedInspector ==
    [][/\ \A p \in Requests :
            /\ At(p, "createInspection", "inspector") /\ calls'[p].pc = "insert" =>
                    \E i \in inspectors : i.id = calls[p].input.inspector_id
            /\ At(p, "createInspection", "insert") /\ calls'[p] = Idle =>
                    /\ last'.op = "createInspection"
                    /\ last'.error.kind = "none"
                    /\ last'.value.row.inspector_id = calls[p].input.inspector_id
                    /\ last'.value.row \notin inspections
                    /\ inspections' = inspections \cup {last'.value.row}
            /\ At(p, "deleteInspector", "associated") /\ calls'[p].pc = "delete" =>
                    \A n \in inspections : n.inspector_id # calls[p].input
       /\ \A n \in inspections' : n.inspector_id \in 1..(nextInspectorId' - 1)
      ]_vars

\* createInspection has returned an inspection of an inspector that a
\* deleteInspector removed after counting no inspections of theirs
C27_Witness ==
    /\ last.op = "createInspection"
    /\ last.error.kind = "none"
    /\ last.value.row \in inspections
    /\ \A i \in inspectors : i.id # last.value.row.inspector_id
    /\ \E v \in vehicles : v.id = last.value.row.vehicle_id

-----------------------------------------------------------------------------
(* The report while inspections are written *)

\* getInspectionReport's count of all inspections
getInspectionReportTotal(p) ==
    /\ calls[p] = Idle
    /\ calls' = [calls EXCEPT ![p] =
                    InProgress("getInspectionReport", "completed", NoInput,
                               [total_inspections |-> totalInspectionsQuery])]
    /\ UNCHANGED <<tables, serials, now, last>>

\* getInspectionReport's second count without its where clause's value:
\* the inspections that are not completed
getInspectionReportCompleted_Pending(p) ==
    /\ At(p, "getInspectionReport", "completed")
    /\ calls' = [calls EXCEPT ![p].pc = "recent",
                              ![p].read = Merge(calls[p].read,
                                    [completed_inspections |->
                                        completedInspectionsQuery_Pending])]
    /\ UNCHANGED <<tables, serials, now, last>>

\* getInspectionReport's count of the completed inspections
getInspectionReportCompleted(p) ==
    /\ At(p, "getInspectionReport", "completed")
    /\ calls' = [calls EXCEPT ![p].pc = "recent",
                              ![p].read = Merge(calls[p].read,
                                    [completed_inspections |-> completedInspectionsQuery])]
    /\ UNCHANGED <<tables, serials, now, last>>

\* the report a call returns once the items of every recent inspection are read
reportOf(read, inspectionItems) ==
    ReportValue(InspectionReport(
        read.total_inspections, read.completed_inspections,
        [k \in 1..Len(read.results) |-> details(read.results[k], inspectionItems[k])]))

\* getInspectionReport's query for the ten most recent inspections; with
\* none there are no items to query and the call returns
getInspectionReportRecent(p) ==
    /\ At(p, "getInspectionReport", "recent")
    /\ \E results \in recentInspectionsResults :
            IF results = <<>>
            THEN /\ last' = Returned("getInspectionReport", NoInput,
                                     reportOf(Merge(calls[p].read, [results |-> <<>>]), <<>>))
                 /\ calls' = [calls EXCEPT ![p] = Idle]
            ELSE /\ calls' = [calls EXCEPT ![p].pc = "items",
                                           ![p].read = Merge(calls[p].read,
                                                [results |-> results, items |-> <<>>])]
                 /\ UNCHANGED last
    /\ UNCHANGED <<tables, serials, now>>

\* one of the items queries that getInspectionReport starts together, one
\* per recent inspection; the call returns after the last of them
getInspectionReportItems(p) ==
    LET read == calls[p].read
    IN  /\ At(p, "getInspectionReport", "items")
        /\ \E k \in (1..Len(read.results)) \ DOMAIN read.items :
           \E inspectionItems \in
                unordered({it \in items : it.inspection_id = read.results[k].inspections.id}) :
                LET answered == [j \in DOMAIN read.items \cup {k} |->
                                    IF j = k THEN inspectionItems ELSE read.items[j]]
                IN  IF DOMAIN answered = 1..Len(read.results)
                    THEN /\ last' = Returned("getInspectionReport", NoInput,
                                             reportOf(read, answered))
                         /\ calls' = [calls EXCEPT ![p] = Idle]
                    ELSE /\ calls' = [calls EXCEPT ![p].read.items = answered]
                         /\ UNCHANGED last
        /\ UNCHANGED <<tables, serials, now>>

\* updateInspection's one statement, the update, and what follows it
updateInspectionUpdate(p, input) ==
    /\ calls[p] = Idle
    /\ updateInspection(input)

\* an inspection of a vehicle that does not exist, by an inspector who does
\* not exist, and of the first vehicle by the first inspector
RaceInspectionInputs ==
    {[vehicle_id |-> ids[1], inspector_id |-> ids[2], inspection_date |-> 20240115] :
        ids \in {<<0, 1>>, <<1, 0>>, <<1, 1>>}}

\* a vehicle and an inspector with no inspection, and with a completed one
\* that has the last id but one of its sequence
RaceReportStores ==
    {Store({vehicleRow(1, VehicleC, 0)}, {inspectorRow(1, InspectorC, 0)}, {}, {}),
     Store({vehicleRow(1, VehicleC, 0)}, {inspectorRow(1, InspectorC, 0)},
           {[inspectionRow(MaxInspectionId - 1, InspectionA, 0) EXCEPT !.completed = TRUE]},
           {itemRow(MaxItemId - 1, MaxInspectionId - 1, ItemA, 0)})}

\* one report at a time
GetInspectionReportTotal ==
    \E p \in Requests :
        /\ \A q \in Requests : calls[q].op # "getInspectionReport"
        /\ getInspectionReportTotal(p)
GetInspectionReportCompleted == \E p \in Requests : getInspectionReportCompleted(p)
GetInspectionReportRecent == \E p \in Requests : getInspectionReportRecent(p)
GetInspectionReportItems == \E p \in Requests : getInspectionReportItems(p)
NewInspectionSelectVehicle ==
    \E p \in Requests : \E input \in RaceInspectionInputs : createInspectionSelectVehicle(p, input)
UpdateInspectionUpdate ==
    \E p \in Requests : \E input \in TouchInspectionInputs : updateInspectionUpdate(p, input)

\* the statements of a getInspectionReport call and of createInspection,
\* updateInspection and deleteVehicle calls, interleaved
NextRaceReport ==
    \/ GetInspectionReportTotal
    \/ GetInspectionReportCompleted
    \/ GetInspectionReportRecent
    \/ GetInspectionReportItems
    \/ NewInspectionSelectVehicle
    \/ CreateInspectionSelectInspector
    \/ CreateInspectionInsert
    \/ UpdateInspectionUpdate
    \/ DeleteVehicleSelect
    \/ DeleteVehicleDelete

SpecRaceReport == InitLastIds(RaceReportStores) /\ [][NextRaceReport]_vars

\* C28 as claimed: every report has 0 <= completed_inspections <=
\* total_inspections and pending_inspections >= 0, also when inspections are
\* written between the report's queries
C28_ReportCountsOrdered ==
    last.op = "getInspectionReport" =>
        /\ 0 <= last.value.report.completed_inspections
        /\ last.value.report.completed_inspections <= last.value.report.total_inspections
        /\ last.value.report.pending_inspections >= 0

\* C28 as amended: each count is the table's at its own query, the report
\* returns the two counts as read with pending_inspections their
\* difference, both counts are at least 0, and completed_inspections is at
\* most total_inspections if the table holds as many inspections at the
\* second count as at the first
C28_ReportCountsAsRead ==
    [][\A p \in Requests :
        /\ calls[p] = Idle /\ calls'[p].op = "getInspectionReport" =>
                calls'[p].read.total_inspections = Cardinality(inspections)
        /\ At(p, "getInspectionReport", "completed") /\ calls'[p].pc = "recent" =>
                /\ calls'[p].read.total_inspections = calls[p].read.total_inspections
                /\ calls'[p].read.completed_inspections =
                        Cardinality({n \in inspections : n.completed})
                /\ calls[p].read.total_inspections = Cardinality(inspections) =>
                        calls'[p].read.completed_inspections
                            <= calls[p].read.total_inspections
        /\ calls[p].op = "getInspectionReport" /\ calls'[p] = Idle =>
                LET report == last'.value.report
                IN  /\ last'.op = "getInspectionReport"
                    /\ report.total_inspections = calls[p].read.total_inspections
                    /\ report.completed_inspections = calls[p].read.completed_inspections
                    /\ report.pending_inspections =
                            report.total_inspections - report.completed_inspections
                    /\ report.total_inspections >= 0
                    /\ report.completed_inspections >= 0
      ]_vars

\* a report counts more completed inspections than inspections: one was
\* created and completed between its two counts
C28_Witness ==
    /\ last.op = "getInspectionReport"
    /\ last.value.report.completed_inspections > last.value.report.total_inspections
    /\ last.value.report.pending_inspections < 0
    /\ Len(last.value.report.recent_inspections) = 2

-----------------------------------------------------------------------------
(* Updates while rows are deleted *)

\* result[0] of an empty result
UndefinedValue == [tag |-> "undefined"]

\* updateVehicle's existence check
updateVehicleSelect(p, input) ==
    LET existingVehicles == {v \in vehicles : v.id = input.id}
    IN  /\ calls[p] = Idle
        /\ \/ /\ existingVehicles = {}
              /\ last' = Threw("updateVehicle", input, NotFound("vehicle", input.id))
              /\ UNCHANGED <<tables, serials, now, calls>>
           \/ /\ existingVehicles # {}
              /\ calls' = [calls EXCEPT ![p] =
                            InProgress("updateVehicle",
                                       IF Truthy(input, "vin") \/ Truthy(input, "license_plate")
                                       THEN "conflicts" ELSE "update",
                                       input, NoInput)]
              /\ UNCHANGED <<tables, serials, now, last>>

\* updateVehicle's conflict query
updateVehicleSelectConflicts(p) ==
    LET input == calls[p].input
        conflicts == {v \in vehicles : v.id # input.id /\ uniquenessConditions(v, input)}
    IN  /\ At(p, "updateVehicle", "conflicts")
        /\ \/ /\ \E conflict \in conflicts :
                    /\ updateVehicleConflict(conflict, input).kind # "none"
                    /\ last' = Threw("updateVehicle", input,
                                     updateVehicleConflict(conflict, input))
              /\ calls' = [calls EXCEPT ![p] = Idle]
              /\ UNCHANGED <<tables, serials, now>>
           \/ /\ \/ conflicts = {}
                 \/ \E conflict \in conflicts :
                        updateVehicleConflict(conflict, input).kind = "none"
              /\ calls' = [calls EXCEPT ![p].pc = "update"]
              /\ UNCHANGED <<tables, serials, now, last>>

\* updateVehicle's update and its return of result[0]
updateVehicleUpdate(p) ==
    LET input == calls[p].input
        result == {set(v, updateVehicleData(input)) : v \in {w \in vehicles : w.id = input.id}}
    IN  /\ At(p, "updateVehicle", "update")
        /\ vehicles' = {IF v.id = input.id THEN set(v, updateVehicleData(input)) ELSE v :
                          v \in vehicles}
        /\ IF result = {}
           THEN last' = Returned("updateVehicle", input, UndefinedValue)
           ELSE \E row \in result : last' = Returned("updateVehicle", input, RowValue(row))
        /\ calls' = [calls EXCEPT ![p] = Idle]
        /\ UNCHANGED <<inspectors, inspections, items, serials, now>>

\* updateInspector's existence check
updateInspectorSelect(p, input) ==
    LET existingInspector == {i \in inspectors : i.id = input.id}
    IN  /\ calls[p] = Idle
        /\ \/ /\ existingInspector = {}
              /\ last' = Threw("updateInspector", input, NotFound("inspector", input.id))
              /\ UNCHANGED <<tables, serials, now, calls>>
           \/ /\ existingInspector # {}
              /\ calls' = [calls EXCEPT ![p] =
                            InProgress("updateInspector",
                                       IF Truthy(input, "employee_id")
                                       THEN "duplicate" ELSE "update",
                                       input, NoInput)]
              /\ UNCHANGED <<tables, serials, now, last>>

\* updateInspector's duplicate check
updateInspectorSelectDuplicate(p) ==
    LET input == calls[p].input
    IN  /\ At(p, "updateInspector", "duplicate")
        /\ \/ /\ duplicateCheck(input) # {}
              /\ last' = Threw("updateInspector", input,
                               Conflict("inspector", "employee_id", input.employee_id))
              /\ calls' = [calls EXCEPT ![p] = Idle]
              /\ UNCHANGED <<tables, serials, now>>
           \/ /\ duplicateCheck(input) = {}
              /\ calls' = [calls EXCEPT ![p].pc = "update"]
              /\ UNCHANGED <<tables, serials, now, last>>

\* updateInspector's update and its return of result[0]
updateInspectorUpdate(p) ==
    LET input == calls[p].input
        result == {set(i, updateInspectorData(input)) :
                        i \in {j \in inspectors : j.id = input.id}}
    IN  /\ At(p, "updateInspector", "update")
        /\ inspectors' = {IF i.id = input.id THEN set(i, updateInspectorData(input)) ELSE i :
                            i \in inspectors}
        /\ IF result = {}
           THEN last' = Returned("updateInspector", input, UndefinedValue)
           ELSE \E row \in result : last' = Returned("updateInspector", input, RowValue(row))
        /\ calls' = [calls EXCEPT ![p] = Idle]
        /\ UNCHANGED <<vehicles, inspections, items, serials, now>>

\* patches that supply nothing but the id, and patches to the VIN of the
\* first vehicle or the employee id of the first inspector
RaceUpdateVehicleInputs ==
    {Merge([id |-> id], patch) :
        id \in VehicleIdArgs, patch \in {[x \in {} |-> 0], [vin |-> VehicleA.vin]}}
RaceUpdateInspectorInputs ==
    {Merge([id |-> id], patch) :
        id \in InspectorIdArgs,
        patch \in {[x \in {} |-> 0], [employee_id |-> InspectorA.employee_id]}}

\* two vehicles and two inspectors, the first of whom has inspected the
\* first vehicle
RaceUpdateStores ==
    {Store({vehicleRow(1, VehicleA, 0), vehicleRow(2, VehicleB, 0)},
           {inspectorRow(1, InspectorA, 0), inspectorRow(2, InspectorB, 0)},
           {inspectionRow(1, InspectionA, 0)}, {})}

UpdateVehicleSelect ==
    \E p \in Requests : \E input \in RaceUpdateVehicleInputs : updateVehicleSelect(p, input)
UpdateVehicleSelectConflicts == \E p \in Requests : updateVehicleSelectConflicts(p)
UpdateVehicleUpdate == \E p \in Requests : updateVehicleUpdate(p)
UpdateInspectorSelect ==
    \E p \in Requests : \E input \in RaceUpdateInspectorInputs : updateInspectorSelect(p, input)
UpdateInspectorSelectDuplicate == \E p \in Requests : updateInspectorSelectDuplicate(p)
UpdateInspectorUpdate == \E p \in Requests : updateInspectorUpdate(p)

\* updateVehicle, updateInspector, deleteVehicle and deleteInspector calls
\* whose statements interleave
NextRaceUpdates ==
    \/ UpdateVehicleSelect
    \/ UpdateVehicleSelectConflicts
    \/ UpdateVehicleUpdate
    \/ UpdateInspectorSelect
    \/ UpdateInspectorSelectDuplicate
    \/ UpdateInspectorUpdate
    \/ DeleteVehicleSelect
    \/ DeleteVehicleDelete
    \/ DeleteInspectorSelect
    \/ DeleteInspectorSelectAssociated
    \/ DeleteInspectorDelete

SpecRaceUpdates == InitStore(RaceUpdateStores) /\ [][NextRaceUpdates]_vars

\* C29: an updateVehicle or updateInspector call that does not fail returns
\* the updated row, never an absent row, also when a concurrent
\* deleteVehicle or deleteInspector removes the row between the call's
\* existence check and its update
C29_UpdateReturnsRow ==
    last.op \in {"updateVehicle", "updateInspector"} /\ last.error.kind = "none" =>
        last.value.tag = "row"

-----------------------------------------------------------------------------
(* Notes and comments on creation *)

\* notes and comments as a caller may supply them: not at all, null, the
\* empty string, a text
OptionalTexts(f, text) == Opt(f, {Null, "", text})

\* inspections of a vehicle that exists or not, with every kind of notes
NotedInspectionInputs ==
    {Merge([vehicle_id |-> v, inspector_id |-> 1, inspection_date |-> 20240115], notes) :
        v \in {0, 1}, notes \in OptionalTexts("notes", "Recheck brakes")}

\* checklists of no item, of one item with every kind of comments, and of
\* two items the first of which has empty comments
CommentedItemsInputs ==
    [inspection_id : InspectionIdArgs,
     items : {<<>>}
             \cup {<<Merge([item_name |-> "Brakes", status |-> "pass"], comments)>> :
                        comments \in OptionalTexts("comments", "Replaced")}
             \cup {<<[item_name |-> "Brakes", status |-> "pass", comments |-> ""],
                     [item_name |-> "Lights", status |-> "fail",
                      comments |-> "Left headlight out"]>>}]

CreateNotedInspection == \E input \in NotedInspectionInputs : createInspection(input)
CreateCommentedItems == \E input \in CommentedItemsInputs : createInspectionItems(input)

\* inspections and checklists created with and without notes and comments
NextOptionalText ==
    \/ CreateNotedInspection
    \/ CreateCommentedItems

SpecOptionalText == InitStore(NewInspectionStores) /\ [][NextOptionalText]_vars

\* the text is a string, the empty one included
Supplied(input, f) == Has(input, f) /\ input[f] # Null

\* C30 as claimed: createInspection stores notes as supplied whenever the
\* input supplies a string, the empty string included, and null only when
\* notes is omitted or null; createInspectionItems does the same with each
\* item's comments
C30_TextStoredAsSupplied ==
    [][/\ last'.op = "createInspection" /\ last'.error.kind = "none" =>
            last'.value.row.notes =
                IF Supplied(last'.input, "notes") THEN last'.input.notes ELSE Null
       /\ last'.op = "createInspectionItems" /\ last'.error.kind = "none" =>
            \A k \in 1..Len(last'.value.rows) :
                last'.value.rows[k].comments =
                    IF Supplied(last'.input.items[k], "comments")
                    THEN last'.input.items[k].comments ELSE Null
      ]_vars

\* C30 as amended: createInspection stores notes as supplied whenever the
\* input supplies a string that is not empty, and null when notes is
\* omitted, null or the empty string; createInspectionItems does the same
\* with each item's comments
C30_NonEmptyTextStored ==
    [][/\ last'.op = "createInspection" /\ last'.error.kind = "none" =>
            /\ last'.value.row \in inspections'
            /\ last'.value.row.notes =
                    IF Supplied(last'.input, "notes") /\ last'.input.notes # ""
                    THEN last'.input.notes ELSE Null
       /\ last'.op = "createInspectionItems" /\ last'.error.kind = "none" =>
            \A k \in 1..Len(last'.value.rows) :
                /\ last'.value.rows[k] \in items'
                /\ last'.value.rows[k].comments =
                        IF /\ Supplied(last'.input.items[k], "comments")
                           /\ last'.input.items[k].comments # ""
                        THEN last'.input.items[k].comments ELSE Null
      ]_vars

\* an inspection created with empty notes holds null notes, and so does one
\* item of two created with empty comments
C30_Witness ==
    /\ last.op = "createInspectionItems"
    /\ last.error.kind = "none"
    /\ Len(last.value.rows) = 2
    /\ last.input.items[1].comments = ""
    /\ last.value.rows[1].comments = Null
    /\ last.value.rows[2].comments = "Left headlight out"
    /\ \E n \in inspections : n.notes = Null
    /\ \E n \in inspections : n.notes = "Recheck brakes"

=============================================================================
